---- MODULE Spec2Model ----
(***************************************************************************)
(* Model of medatechnology/simplehttp: middleware composition and route    *)
(* groups of the engine bindings, the error-response adapters, and the     *)
(* middleware library (Timeout, Recover, CORS, RateLimiter).               *)
(*                                                                         *)
(* Strings that the code concatenates or joins are sequences of tokens, so *)
(* that concatenation is \o and a joined list keeps its separators.        *)
(***************************************************************************)
EXTENDS Integers, Sequences, FiniteSets, TLC

VARIABLES
    \* ---- routing (Spec) ----
    engine,     \* the engine binding the Server was built for
    built,      \* NewServer returned a server (FALSE: it panicked)
    nUse,       \* number of Use calls made so far
    srvMw,      \* Server.middleware
    grp,        \* the RouterGroup objects created so far
    useCnt,     \* history: number of Use calls made on the server (0) and on each group
    routes,     \* what has been registered with the underlying engine
    req,        \* the request being served, or idle
    \* ---- one request through a chain of library middleware (SpecExec) ----
    xin,        \* the request's inputs: engine, chain, configuration, handler behaviour
    now,        \* the clock
    units,      \* the execution units: 0 serves the request, 1 is spawned by Timeout
    ctx,        \* the context derived by Timeout
    done,       \* Timeout's result channel
    emits,      \* the response emissions made on the request's Context, in order
    xlog,       \* history: what the pass-through middleware and the panic did
    sel,        \* history: how Timeout's select was resolved
    adapterGot, \* history: what the handler the adapter wraps returned to it
    engineGot,  \* what the underlying engine got back from its call
    \* ---- one request through the CORS middleware (SpecCORS) ----
    cin,        \* the configuration given to CORS and the request
    cpc,        \* where the request is: "recv", "next" (in the wrapped handler), "done"
    chdr,       \* the response headers set through the Context
    cemit,      \* the response emissions made by the middleware
    ccalls,     \* history: number of invocations of the wrapped handler
    \* ---- requests through one RateLimiter middleware (SpecRate) ----
    rcfg,       \* RateLimitConfig: RequestsPerSecond and BurstSize
    rclock,     \* the clock, in ticks
    store,      \* RateLimit.store: key to limiter
    rhist,      \* history: the requests made, with their time and outcome
    rproc,      \* the requests in flight in the rate limiter, by goroutine
    \* ---- concurrent requests through one RateLimiter (SpecLimiter) ----
    lcfg,       \* RateLimitConfig: RequestsPerSecond and BurstSize
    lclock,     \* the clock, in ticks
    lmu,        \* RateLimit.mu: the request holding it, or 0
    lproc,      \* the requests in flight: where each is, its key, its limiter
    lheap,      \* the rate.Limiter objects allocated so far
    lstore,     \* RateLimit.store: key to limiter object
    lhist,      \* history: the decisions made, with key and time
    \* ---- one request through the BasicAuth middleware (SpecAuth) ----
    ain,        \* the configured username and password, and what the client sent
    apc,        \* where the request is: "recv", "next", "done"
    aemit,      \* the response emissions made by the middleware
    acalls,     \* history: number of invocations of the wrapped handler
    \* ---- the cache middleware on a MemoryCache (SpecCache) ----
    mttl,       \* CacheConfig.TTL
    mclock,     \* the clock, in ticks
    mdata,      \* MemoryCache.data: key to cacheItem
    mproc,      \* the calls in flight, and what each caller's last call gave
    mbegun,     \* number of calls begun so far
    mlast,      \* history: for each key, its last Set if no Delete or Clear followed
    mserved,    \* history: for each key, when the handler last served a request that missed
    mraced,     \* history: two calls were in the map at once, one of them writing
    mcrashed,   \* the runtime ended the process on a concurrent map access
    \* ---- one request's Context on an engine binding (SpecCtx) ----
    hengine,    \* "fiber", "fasthttp" or "echo"
    hreq,       \* the request headers: name to value, "" for a header not there
    hresp,      \* the response headers
    hstore,     \* the Context's key-value store
    hbody,      \* the raw request body as it arrived
    hstream,    \* echo: what is left to read of Request().Body
    hops,       \* number of calls made on the Context so far
    hlast,      \* history: for each header, the value most recently given to a setter
    hprev,      \* history: the last GetHeaders result if no header setter followed it,
                \* and whether the key GetHeaders looks under was Set since
    hget,       \* history: the last GetHeader call
    hsnap,      \* history: the last GetHeaders call
    hread,      \* history: the last GetBody call
    \* ---- a request through Security and RequestID (SpecHeaders) ----
    wengine,    \* the engine binding of the request's Context
    wcfg,       \* the SecurityConfig given to Security
    wchain,     \* the middleware wrapped around the handler, outermost first
    wpc,        \* the layer entered next: Len(wchain) + 1 is the handler
    wreq,       \* the engine's request headers
    wresp,      \* the engine's response headers
    wdone,      \* the handler has run and the response is final
    win,        \* history: the headers as the request came in
    wgen,       \* history: the ID RequestID generated, "" if none
    wseen,      \* history: what GetHeader(X-Request-ID) gave the handler
    \* ---- one upload through FileHandler.HandleUpload (SpecUpload) ----
    uin,        \* the upload and the FileHandler's fields
    udone,      \* the handler has returned
    uresp,      \* the response the handler wrote
    udir,       \* the files in UploadDir
    \* ---- one call of Client.Request (SpecClient) ----
    kin,        \* the call's configuration and what the server does per attempt
    kpc,        \* where Request is: "loop", "do", "after", "returned"
    kattempt,   \* the loop counter
    kresp,      \* the variable resp
    klastErr,   \* the variable lastErr
    kret,       \* what Request returned
    klog        \* history: the requests sent and the waits made, in order

routeVars == <<engine, built, nUse, srvMw, grp, useCnt, routes, req>>

execVars == <<xin, now, units, ctx, done, emits, xlog, sel, adapterGot, engineGot>>

corsVars == <<cin, cpc, chdr, cemit, ccalls>>
rateVars == <<rcfg, rclock, store, rhist, rproc>>
limVars == <<lcfg, lclock, lmu, lproc, lheap, lstore, lhist>>
authVars == <<ain, apc, aemit, acalls>>
cacheVars == <<mttl, mclock, mdata, mproc, mbegun, mlast, mserved, mraced, mcrashed>>
ctxVars == <<hengine, hreq, hresp, hstore, hbody, hstream, hops, hlast, hprev, hget, hsnap, hread>>
wireVars == <<wengine, wcfg, wchain, wpc, wreq, wresp, wdone, win, wgen, wseen>>
upVars == <<uin, udone, uresp, udir>>
cliVars == <<kin, kpc, kattempt, kresp, klastErr, kret, klog>>
restVars == <<limVars, authVars, cacheVars, ctxVars, wireVars, upVars, cliVars>>
oldVars == <<routeVars, execVars, corsVars, rateVars>>
libVars == <<corsVars, rateVars, restVars>>
notCors == <<routeVars, execVars, rateVars, restVars>>
notRate == <<routeVars, execVars, corsVars, restVars>>
notLim == <<oldVars, authVars, cacheVars, ctxVars, wireVars, upVars, cliVars>>
notAuth == <<oldVars, limVars, cacheVars, ctxVars, wireVars, upVars, cliVars>>
notCache == <<oldVars, limVars, authVars, ctxVars, wireVars, upVars, cliVars>>
notCtx == <<oldVars, limVars, authVars, cacheVars, wireVars, upVars, cliVars>>
notWire == <<oldVars, limVars, authVars, cacheVars, ctxVars, upVars, cliVars>>
notUp == <<oldVars, limVars, authVars, cacheVars, ctxVars, wireVars, cliVars>>
notCli == <<oldVars, limVars, authVars, cacheVars, ctxVars, wireVars, upVars>>
vars == <<routeVars, execVars, corsVars, rateVars, restVars>>

\* ------------------------------------------------------------------ bounds
MaxUse == 2
MaxGroups == 2
MaxRoutes == 1
MaxTimeout == 2
MaxDur == 2
MaxOrigins == 2
MaxReq == 3
MaxTicks == 2
TicksPerSec == 2
MaxRate == 2
MaxBurst == 2
MaxProc == 2
MaxConcReq == 3
MaxConcTicks == 1
MaxCacheOps == 3
MaxCacheTicks == 1
MaxTTL == 1
MaxCtxOps == 4
MaxBody == 1

\* ------------------------------------------------------------- small sets
Engines == {"fiber", "fasthttp"}
Methods == {"GET", "POST"}
Prefixes == {"/api"}
SubPrefixes == {"/v1"}
Paths == {"/users"}
\* The paths handed to Static, StaticFile and WebSocket.  None of them is
\* the beginning of a path handed to a method function.
StaticPaths == {"/assets"}
FilePaths == {"/favicon.ico"}
SocketPaths == {"/ws"}
\* The *Config handed to NewServer: nil, or a Config with Debug unset or set
\* and with ConfigTimeOut left nil or pointing to a TimeOutConfig.
Configs ==
    {[isNil |-> TRUE, Debug |-> FALSE, ConfigTimeOut |-> FALSE]}
       \cup [isNil : {FALSE}, Debug : BOOLEAN, ConfigTimeOut : BOOLEAN]
\* simplehttp.DefaultConfig
DefaultConfig == [isNil |-> FALSE, Debug |-> FALSE, ConfigTimeOut |-> TRUE]

NoGroup == [used |-> FALSE, parent |-> 0, prefix |-> <<>>, mw |-> <<>>]

\* ------------------------------------------------------------ composition
\* A middleware value is named by the router it was handed to (0 is the
\* server) and its position among the Use calls on that router.  A handler
\* value is the sequence of the middleware wrapped around the terminal
\* handler, outermost first.
Mw(t, k) == [t |-> t, k |-> k]
H == [t |-> -1, k |-> 0]
Terminal == <<H>>
\* What the engine runs by itself: its handler of a Static, StaticFile or
\* WebSocket route, the upgrade check fiber's WebSocket registers with
\* app.Use(path, ...), and the Recover and Logger middleware echo's NewServer
\* hands to e.Use.
Native == [t |-> -2, k |-> 0]
UpgradeCheck == [t |-> -2, k |-> 1]
EchoRecover == [t |-> -3, k |-> 1]
EchoLogger == [t |-> -3, k |-> 2]

\* NamedMiddleware.Handle: m(next)
Handle(m, next) == <<m>> \o next

RECURSIVE FoldDown(_, _, _)
FoldDown(mw, i, handler) ==
    IF i < 1 THEN handler
    ELSE FoldDown(mw, i - 1, Handle(mw[i], handler))

RECURSIVE FoldUp(_, _, _)
FoldUp(mw, i, handler) ==
    IF i > Len(mw) THEN handler
    ELSE FoldUp(mw, i + 1, Handle(mw[i], handler))

\* mutant of applyMiddleware: the loop runs from the first middleware up
applyMiddlewareAscending(mw, handler) == FoldUp(mw, 1, handler)

\* Server.applyMiddleware: for i := len(s.middleware) - 1; i >= 0; i--
applyMiddleware(mw, handler) == FoldDown(mw, Len(mw), handler)

\* RouterGroup.applyMiddleware (fiber): the group's own list, then the server's
groupApplyMiddleware(g, handler) ==
    applyMiddleware(srvMw, applyMiddleware(grp[g].mw, handler))

\* ------------------------------------------------------------ error values
\* A handler's return value: nil, a structured error (NewError) or an opaque error.
Nil == [kind |-> "nil", code |-> 0, msg |-> ""]
\* NewError(code, message)
NewError(code, message) == [kind |-> "structured", code |-> code, msg |-> message]
Opaque(message) == [kind |-> "opaque", code |-> 0, msg |-> message]

StatusBadRequest == 400
StatusTooManyRequests == 429
StatusInternalServerError == 500
StatusGatewayTimeout == 504
StatusOK == 200
StatusNoContent == 204
StatusUnauthorized == 401

\* ------------------------------------------------- one request: the inputs
AllEngines == {"fiber", "fasthttp", "echo"}

\* The middleware lists a route is composed of, outermost first.  "Outer"
\* is a pass-through middleware that records its pre- and post-logic;
\* "RateLimiter" is the rate limiter for a key whose bucket is empty.
Chains ==
    { <<>>, <<"Timeout">>, <<"Recover">>, <<"Outer">>, <<"Recover", "Outer">>, <<"Outer", "Recover">>,
      <<"Outer", "Timeout">>, <<"Timeout", "Recover">>, <<"Recover", "Timeout">>,
      <<"RateLimiter">>, <<"Outer", "RateLimiter">>, <<"RateLimiter", "Outer">> }

\* What the terminal handler does when it has run for its duration.
Outcomes ==
    { Nil, NewError(StatusBadRequest, "bad request"),
      NewError(StatusTooManyRequests, "slow down"), Opaque("boom"),
      [kind |-> "panic", code |-> 0, msg |-> "fault"] }

ReadTimeouts == 0..MaxTimeout
Durations == 0..MaxDur
ParentCancels == {-1, 0, 1}

Pending == [kind |-> "pending", code |-> 0, msg |-> ""]
Panic == [kind |-> "panic", code |-> 0, msg |-> "fault"]

NoUnit == [stack |-> <<>>, mode |-> "none", val |-> Nil, left |-> 0]
NoCtx == [active |-> FALSE, deadline |-> 0, isDone |-> FALSE, cause |-> "none"]
NoSel == [resolved |-> FALSE, val |-> Nil, at |-> 0, sentAt |-> -1, sent |-> Nil]

\* The state of the request-execution variables while no request of SpecExec runs.
ExecIdle ==
    /\ xin = [engine |-> "fiber", chain |-> <<>>, readTimeout |-> 0, dur |-> 0, parentCancelAt |-> -1,
              outcome |-> Nil, writes |-> FALSE, stackTrace |-> FALSE,
              errorHandler |-> FALSE]
    /\ now = 0
    /\ units = [u \in 0..1 |-> NoUnit]
    /\ ctx = NoCtx
    /\ done = <<>>
    /\ emits = <<>>
    /\ xlog = <<>>
    /\ sel = NoSel
    /\ adapterGot = Pending
    /\ engineGot = Pending

\* ---------------------------------------------------------------- actions
EmptyMap == [k \in {} |-> <<>>]

CorsIdle ==
    /\ cin = [nilConfig |-> TRUE, allowOrigins |-> <<>>, allowMethods |-> <<>>,
              allowHeaders |-> <<>>, exposeHeaders |-> <<>>,
              allowCredentials |-> FALSE, maxAge |-> 0,
              method |-> "GET", origin |-> ""]
    /\ cpc = "done"
    /\ chdr = EmptyMap
    /\ cemit = <<>>
    /\ ccalls = 0

NoRequest == [pc |-> "idle", key |-> "", idx |-> 0]

RateIdle ==
    /\ rcfg = [requestsPerSecond |-> 0, burstSize |-> 0]
    /\ rclock = 0
    /\ store = EmptyMap
    /\ rhist = <<>>
    /\ rproc = [p \in 1..MaxProc |-> NoRequest]

NoProc == [pc |-> "idle", key |-> "", lim |-> 0]

LimIdle ==
    /\ lcfg = [requestsPerSecond |-> 0, burstSize |-> 0]
    /\ lclock = 0
    /\ lmu = 0
    /\ lproc = [p \in 1..MaxProc |-> NoProc]
    /\ lheap = <<>>
    /\ lstore = EmptyMap
    /\ lhist = <<>>

AuthIdle ==
    /\ ain = [user |-> <<>>, pass |-> <<>>, kind |-> "none", ruser |-> <<>>, rpass |-> <<>>]
    /\ apc = "done"
    /\ aemit = <<>>
    /\ acalls = 0

CacheKeys == {"k1", "k2"}
NoCall == [pc |-> "idle", op |-> "none", key |-> "", val |-> "", ttl |-> 0,
           hret |-> Nil, found |-> FALSE, got |-> "", want |-> <<>>,
           emitted |-> <<>>, calls |-> 0, ret |-> Nil,
           prior |-> [served |-> FALSE, at |-> 0], beginAt |-> 0]
NeverSet == [set |-> FALSE, val |-> "", at |-> 0, ttl |-> 0]
NotServed == [served |-> FALSE, at |-> 0]

CacheIdle ==
    /\ mttl = 0
    /\ mclock = 0
    /\ mdata = EmptyMap
    /\ mproc = [p \in {1, 2} |-> NoCall]
    /\ mbegun = 0
    /\ mlast = [k \in CacheKeys |-> NeverSet]
    /\ mserved = [k \in CacheKeys |-> NotServed]
    /\ mraced = FALSE
    /\ mcrashed = FALSE

HEADER_REQUEST_ID == "X-Request-ID"
HEADER_ORIGIN == "Origin"
REQUEST_HEADER_PARSED_STRING == "request_header"
HEADER_PARSED_KEY == "simplehttp.header"
HeaderKeys == {HEADER_REQUEST_ID, HEADER_ORIGIN}
StoreKeys == HeaderKeys \cup {REQUEST_HEADER_PARSED_STRING, HEADER_PARSED_KEY}
NoHeader == [k \in HeaderKeys |-> ""]
\* The fields of RequestHeader read from the headers of the model.
EmptySnapshot == [RequestID |-> "", Origin |-> ""]
\* A value of the key-value store: nothing, a string or a *RequestHeader,
\* and (history) who put it there.
NoValue == [kind |-> "nil", str |-> "", snap |-> EmptySnapshot, by |-> ""]
NoSnapshot == [has |-> FALSE, snap |-> EmptySnapshot, recached |-> FALSE]
NoGet == [done |-> FALSE, key |-> "", val |-> "", want |-> ""]
NoGetHeaders == [done |-> FALSE, snap |-> EmptySnapshot, stored |-> NoValue, prev |-> NoSnapshot]
NoRead == [done |-> FALSE, val |-> <<>>, nth |-> 0]

CtxIdle ==
    /\ hengine = "fiber"
    /\ hreq = NoHeader /\ hresp = NoHeader
    /\ hstore = [k \in StoreKeys |-> NoValue]
    /\ hbody = <<>> /\ hstream = <<>>
    /\ hops = 0
    /\ hlast = NoHeader
    /\ hprev = NoSnapshot
    /\ hget = NoGet /\ hsnap = NoGetHeaders /\ hread = NoRead

\* The headers a request through Security and RequestID reads and writes.
SecurityKeys == {"X-Frame-Options", "X-Content-Type-Options", "X-XSS-Protection",
                 "Content-Security-Policy"}
WireKeys == SecurityKeys \cup {HEADER_REQUEST_ID}
NoWire == [k \in WireKeys |-> ""]
NoSecurity == [FrameDeny |-> FALSE, ContentTypeNosniff |-> FALSE,
               BrowserXssFilter |-> FALSE, ContentSecurityPolicy |-> ""]

WireIdle ==
    /\ wengine = "fiber" /\ wcfg = NoSecurity /\ wchain = <<>> /\ wpc = 0
    /\ wreq = NoWire /\ wresp = NoWire /\ wdone = FALSE
    /\ win = NoWire /\ wgen = "" /\ wseen = ""

NoUpload == [hasFile |-> FALSE, size |-> 0, ctype |-> <<"", "">>, saveErr |-> "none",
             MaxFileSize |-> 0, AllowedTypes |-> <<>>]
NoAnswer == [code |-> 0, error |-> ""]

UpIdle ==
    /\ uin = NoUpload /\ udone = FALSE /\ uresp = NoAnswer /\ udir = {}

\* A *http.Response: nil, or a status and whether its body has been closed.
NilResponse == [isNil |-> TRUE, status |-> 0, closed |-> FALSE]
NoReturn == [resp |-> NilResponse, err |-> ""]

CliIdle ==
    /\ kin = [MaxRetries |-> 0, RetryPolicy |-> "nil", server |-> <<>>]
    /\ kpc = "returned" /\ kattempt = 0
    /\ kresp = NilResponse /\ klastErr = "" /\ kret = NoReturn /\ klog = <<>>

RestIdle == LimIdle /\ AuthIdle /\ CacheIdle /\ CtxIdle /\ WireIdle /\ UpIdle /\ CliIdle

RouteIdle ==
    /\ engine = "fiber" /\ built = TRUE /\ nUse = 0 /\ srvMw = <<>> /\ routes = <<>>
    /\ grp = [g \in 1..MaxGroups |-> NoGroup]
    /\ useCnt = [t \in 0..MaxGroups |-> 0]
    /\ req = [state |-> "idle", route |-> 0, depth |-> 0, log |-> <<>>]

\* NewServer(config): fiber and fasthttp put DefaultConfig in the place of a
\* nil config and then read config.ConfigTimeOut.ReadTimeout, which panics
\* when ConfigTimeOut is nil; echo reads config.Debug of whatever it is
\* given, which panics on a nil config, and hands Recover, and Logger when
\* Debug is set, to e.Use.  A panic leaves no server.
NewServer(e, config) ==
    IF e # "echo"
    THEN LET c == IF config.isNil THEN DefaultConfig ELSE config
         IN  [built |-> c.ConfigTimeOut, mw |-> <<>>]
    ELSE IF config.isNil THEN [built |-> FALSE, mw |-> <<>>]
    ELSE [built |-> TRUE,
          mw |-> IF config.Debug THEN <<EchoRecover, EchoLogger>> ELSE <<EchoRecover>>]

Init ==
    /\ engine \in Engines
    /\ \E config \in Configs :
          /\ built = NewServer(engine, config).built
          /\ srvMw = NewServer(engine, config).mw
    /\ nUse = 0
    /\ grp = [g \in 1..MaxGroups |-> NoGroup]
    /\ useCnt = [t \in 0..MaxGroups |-> 0]
    /\ routes = <<>>
    /\ req = [state |-> "idle", route |-> 0, depth |-> 0, log |-> <<>>]
    /\ ExecIdle
    /\ CorsIdle
    /\ RateIdle
    /\ RestIdle

\* Routes and middleware are registered before the server starts serving.
Serving == req.state # "idle"

\* Server.Use(m)
ServerUse ==
    /\ built /\ ~Serving
    /\ nUse < MaxUse
    /\ srvMw' = Append(srvMw, Mw(0, useCnt[0] + 1))
    /\ useCnt' = [useCnt EXCEPT ![0] = @ + 1]
    /\ nUse' = nUse + 1
    /\ UNCHANGED <<engine, built, grp, routes, req, execVars, libVars>>

FreeGroup(g) == ~grp[g].used /\ \A h \in 1..(g - 1) : grp[h].used

\* Server.Group(prefix)
ServerGroup(g, prefix) ==
    /\ built /\ ~Serving
    /\ FreeGroup(g)
    /\ grp' = [grp EXCEPT ![g] =
                  [used |-> TRUE, parent |-> 0, prefix |-> <<prefix>>, mw |-> <<>>]]
    /\ UNCHANGED <<engine, built, nUse, srvMw, useCnt, routes, req, execVars, libVars>>

\* mutant of GroupGroup: the subgroup keeps its own prefix only
GroupGroupOwnPrefix(p, g, prefix) ==
    /\ built /\ ~Serving
    /\ grp[p].used
    /\ FreeGroup(g)
    /\ grp' = [grp EXCEPT ![g] =
                  [used |-> TRUE, parent |-> p, prefix |-> <<prefix>>, mw |-> <<>>]]
    /\ UNCHANGED <<engine, built, nUse, srvMw, useCnt, routes, req, execVars, libVars>>

\* RouterGroup.Group(prefix): prefix: g.prefix + prefix, and (fiber)
\* middleware: make([]Middleware, 0).  EchoGroup.Group is echo's
\* Group.Group, which starts the subgroup with a copy of the parent's list.
GroupGroup(p, g, prefix) ==
    /\ built /\ ~Serving
    /\ grp[p].used
    /\ FreeGroup(g)
    /\ grp' = [grp EXCEPT ![g] =
                  [used |-> TRUE, parent |-> p,
                   prefix |-> grp[p].prefix \o <<prefix>>,
                   mw |-> IF engine = "echo" THEN grp[p].mw ELSE <<>>]]
    /\ UNCHANGED <<engine, built, nUse, srvMw, useCnt, routes, req, execVars, libVars>>

\* RouterGroup.Use(m): fiber appends to the group's list, fasthttp calls
\* g.server.Use(m); EchoGroup.Use is echo's Group.Use, which appends to the
\* group's list
GroupUse(g) ==
    /\ built /\ ~Serving
    /\ grp[g].used
    /\ nUse < MaxUse
    /\ IF engine \in {"fiber", "echo"}
       THEN /\ grp' = [grp EXCEPT ![g].mw = Append(@, Mw(g, useCnt[g] + 1))]
            /\ UNCHANGED srvMw
       ELSE /\ srvMw' = Append(srvMw, Mw(g, useCnt[g] + 1))
            /\ UNCHANGED grp
    /\ useCnt' = [useCnt EXCEPT ![g] = @ + 1]
    /\ nUse' = nUse + 1
    /\ UNCHANGED <<engine, built, routes, req, execVars, libVars>>

\* Server.GET / POST ...: s.app.Get(path, Adapter(s.applyMiddleware(handler)));
\* EchoServer.GET: s.e.GET(path, Adapter(handler))
ServerRoute(method, path) ==
    /\ built /\ ~Serving
    /\ Len(routes) < MaxRoutes
    /\ routes' = Append(routes,
          [kind |-> "handler", method |-> method, path |-> <<path>>, via |-> 0,
           handler |-> IF engine = "echo" THEN Terminal
                       ELSE applyMiddleware(srvMw, Terminal),
           seen |-> useCnt])
    /\ UNCHANGED <<engine, built, nUse, srvMw, grp, useCnt, req, execVars, libVars>>

\* RouterGroup.GET / POST ...: fiber registers g.prefix+path with
\* Adapter(g.applyMiddleware(handler)); fasthttp calls g.server.GET(g.prefix+path, handler);
\* EchoGroup.GET: g.group.GET(path, Adapter(handler)), where echo wraps the
\* handler in the group's list as it is then
GroupRoute(g, method, path) ==
    /\ built /\ ~Serving
    /\ grp[g].used
    /\ Len(routes) < MaxRoutes
    /\ routes' = Append(routes,
          [kind |-> "handler", method |-> method, path |-> grp[g].prefix \o <<path>>,
           via |-> g,
           handler |-> IF engine = "fiber"
                       THEN groupApplyMiddleware(g, Terminal)
                       ELSE IF engine = "echo"
                       THEN applyMiddleware(grp[g].mw, Terminal)
                       ELSE applyMiddleware(srvMw, Terminal),
           seen |-> useCnt])
    /\ UNCHANGED <<engine, built, nUse, srvMw, grp, useCnt, req, execVars, libVars>>

\* What Static, StaticFile and WebSocket hand to the engine.  fasthttp:
\* router.ANY(prefix + "/{filepath:*}", ...), router.GET(path, FSHandler),
\* router.GET(path, ...); fiber: app.Static, app.Static, and app.Use(path,
\* upgrade check) followed by app.Get(path, websocket.New(...)); echo:
\* e.Static, e.FileFS, e.GET.  None goes through applyMiddleware or Adapter.
RawMethod(e, kind) ==
    IF kind = "WebSocket" THEN "GET"
    ELSE IF e = "fasthttp" THEN (IF kind = "Static" THEN "ANY" ELSE "GET")
    ELSE IF e = "echo" /\ kind = "StaticFile" THEN "GET"
    ELSE "STATIC"

RawPath(e, kind, prefix, path) ==
    IF e = "fasthttp" /\ kind = "Static" THEN prefix \o <<path, "/{filepath:*}">>
    ELSE prefix \o <<path>>

\* On echo a group's middleware is wrapped around whatever is added to the
\* group; fiber's and fasthttp's groups call the server's function.
RawHandler(e, kind, g) ==
    IF e = "fiber" /\ kind = "WebSocket" THEN <<UpgradeCheck, Native>>
    ELSE IF e = "echo" /\ g # 0 THEN applyMiddleware(grp[g].mw, <<Native>>)
    ELSE <<Native>>

\* The Use calls made before a registration are kept for routes to a
\* Handler only.
NoneSeen == [t \in 0..MaxGroups |-> 0]

RegisterRaw(g, kind, path) ==
    /\ built /\ ~Serving
    /\ Len(routes) < MaxRoutes
    /\ routes' = Append(routes,
          [kind |-> kind, method |-> RawMethod(engine, kind),
           path |-> RawPath(engine, kind, IF g = 0 THEN <<>> ELSE grp[g].prefix, path),
           via |-> g, handler |-> RawHandler(engine, kind, g), seen |-> NoneSeen])
    /\ UNCHANGED <<engine, built, nUse, srvMw, grp, useCnt, req, execVars, libVars>>

\* Server.Static(prefix, root)
ServerStatic(path) == RegisterRaw(0, "Static", path)
\* Server.StaticFile(path, filepath)
ServerStaticFile(path) == RegisterRaw(0, "StaticFile", path)
\* Server.WebSocket(path, handler)
ServerWebSocket(path) == RegisterRaw(0, "WebSocket", path)
\* RouterGroup.Static(prefix, root)
GroupStatic(g, path) == grp[g].used /\ RegisterRaw(g, "Static", path)
\* RouterGroup.StaticFile(path, filepath)
GroupStaticFile(g, path) == grp[g].used /\ RegisterRaw(g, "StaticFile", path)
\* RouterGroup.WebSocket(path, handler)
GroupWebSocket(g, path) == grp[g].used /\ RegisterRaw(g, "WebSocket", path)

\* mutant of Effective: every binding wraps the route in the server's list
\* while it serves
EffectiveAlwaysLate(r) == applyMiddleware(srvMw, routes[r].handler)

\* The handler a request to route r runs.  fiber and fasthttp run what was
\* registered; echo wraps the route it found in the middleware its Use has
\* collected by then (EchoServer.Use: s.e.Use).
Effective(r) ==
    IF engine = "echo" THEN applyMiddleware(srvMw, routes[r].handler)
    ELSE routes[r].handler

\* What a run of a composed handler does for a request that asks for a
\* WebSocket upgrade or does not.  A registered middleware calls next once:
\* its logic before next(c), the run of what it wraps, its logic after it.
\* The upgrade check of fiber's WebSocket calls c.Next() for an upgrade
\* request only; for any other it returns fiber.ErrUpgradeRequired (426)
\* and what it wraps is not entered.
RECURSIVE Run(_, _)
Run(h, upgrade) ==
    IF Len(h) = 1 THEN <<[ev |-> "H", m |-> h[1]]>>
    ELSE IF h[1] = UpgradeCheck /\ ~upgrade THEN <<[ev |-> "refused", m |-> h[1]]>>
    ELSE <<[ev |-> "pre", m |-> h[1]]>> \o Run(Tail(h), upgrade)
            \o <<[ev |-> "post", m |-> h[1]]>>

\* The engine dispatches a request to a registered route and the composed
\* handler runs until it returns to the engine.  One request is followed:
\* nothing is registered once the server serves, so every later request to
\* the route runs the same handler.
Dispatch(r, upgrade) ==
    /\ built /\ ~Serving
    /\ r \in 1..Len(routes)
    /\ req' = [state |-> "done", route |-> r, depth |-> 0,
               log |-> Run(Effective(r), upgrade)]
    /\ UNCHANGED <<engine, built, nUse, srvMw, grp, useCnt, routes, execVars, libVars>>

Next ==
    \/ ServerUse
    \/ \E g \in 1..MaxGroups, p \in Prefixes : ServerGroup(g, p)
    \/ \E p \in 1..MaxGroups, g \in 1..MaxGroups, x \in SubPrefixes : GroupGroup(p, g, x)
    \/ \E g \in 1..MaxGroups : GroupUse(g)
    \/ \E m \in Methods, p \in Paths : ServerRoute(m, p)
    \/ \E g \in 1..MaxGroups, m \in Methods, p \in Paths : GroupRoute(g, m, p)
    \/ \E p \in StaticPaths : ServerStatic(p)
    \/ \E p \in FilePaths : ServerStaticFile(p)
    \/ \E p \in SocketPaths : ServerWebSocket(p)
    \/ \E g \in 1..MaxGroups, p \in StaticPaths : GroupStatic(g, p)
    \/ \E g \in 1..MaxGroups, p \in FilePaths : GroupStaticFile(g, p)
    \/ \E g \in 1..MaxGroups, p \in SocketPaths : GroupWebSocket(g, p)
    \/ \E r \in 1..MaxRoutes, upgrade \in BOOLEAN : Dispatch(r, upgrade)

Spec == Init /\ [][Next]_vars

\* The same on the echo binding.
EchoInit ==
    /\ engine = "echo"
    /\ \E config \in Configs :
          /\ built = NewServer(engine, config).built
          /\ srvMw = NewServer(engine, config).mw
    /\ nUse = 0
    /\ grp = [g \in 1..MaxGroups |-> NoGroup]
    /\ useCnt = [t \in 0..MaxGroups |-> 0]
    /\ routes = <<>>
    /\ req = [state |-> "idle", route |-> 0, depth |-> 0, log |-> <<>>]
    /\ ExecIdle
    /\ CorsIdle
    /\ RateIdle
    /\ RestIdle

SpecEcho == EchoInit /\ [][Next]_vars

\* ------------------------------------------------ one request: execution
\* fiber and fasthttp register Adapter(applyMiddleware(handler)): layer 0 is
\* the Adapter, layers 1..Len(chain) are the middleware and the last layer is
\* the terminal handler.  echo hands each middleware to the engine's Use as
\* MiddlewareAdapter(m.Handle) and registers Adapter(handler) as the route's
\* handler: layer 0 is the engine's call of the chain, layers 1..Len(chain)
\* are the middleware, then comes the Adapter and last the terminal
\* handler.  A unit's stack holds the
\* layers it has entered; its mode says what it does next: "enter" runs the
\* top layer from its start, "ret" resumes the top layer with the value its
\* callee returned, "panic" unwinds through it, "select" waits in Timeout,
\* "work" is the terminal handler running.
AdapterAt == IF xin.engine = "echo" THEN Len(xin.chain) + 1 ELSE 0
Layers == IF xin.engine = "echo" THEN Len(xin.chain) + 2 ELSE Len(xin.chain) + 1
Kind(i) ==
    IF i = AdapterAt THEN "Adapter"
    ELSE IF i = Layers THEN "Handler"
    ELSE IF i = 0 THEN "Engine"
    ELSE xin.chain[i]
Top(u) == units[u].stack[Len(units[u].stack)]
Pop(st) == SubSeq(st, 1, Len(st) - 1)
Crashed == units[0].mode = "crashed"
At(u, mode, kind) ==
    /\ units[u].mode = mode
    /\ units[u].stack # <<>>
    /\ Kind(Top(u)) = kind

\* c.JSON(code, data) on the request's Context
JSON(by, code, fields, msg) ==
    [by |-> by, fn |-> "JSON", code |-> code, fields |-> fields, msg |-> msg]

\* mutant of handleError: every error answered as an internal error
handleErrorAlways500(err) ==
    JSON("Adapter", StatusInternalServerError, {"error"}, err.msg)

\* handleError of the fiber and fasthttp bindings
handleError(err) ==
    IF err.kind = "structured"
    THEN JSON("Adapter", err.code, {"code", "message"}, err.msg)
    ELSE JSON("Adapter", StatusInternalServerError, {"error"}, err.msg)

\* Adapter: what it emits on the Context and what it returns to its caller
\* for the value the handler it wraps returned.  echo's Adapter returns
\* handler(NewEchoContext(c)) as it is.
AdapterEmits(eng, err) ==
    IF err = Nil \/ eng = "echo" THEN <<>> ELSE <<handleError(err)>>
AdapterReturns(eng, err) == IF eng = "echo" THEN err ELSE Nil

ExecInit ==
    /\ RouteIdle
    /\ CorsIdle
    /\ RateIdle
    /\ RestIdle
    /\ xin \in { x \in [engine : AllEngines, chain : Chains,
                         readTimeout : ReadTimeouts, dur : Durations,
                         parentCancelAt : ParentCancels, outcome : Outcomes,
                         writes : BOOLEAN, stackTrace : BOOLEAN,
                         errorHandler : BOOLEAN] :
                    x.engine # "echo" => x.parentCancelAt = -1 }
    /\ now = 0
    /\ units = [u \in 0..1 |->
                  IF u = 0 THEN [stack |-> <<0>>, mode |-> "enter", val |-> Nil, left |-> 0]
                  ELSE NoUnit]
    /\ ctx = NoCtx
    /\ done = <<>>
    /\ emits = <<>>
    /\ xlog = <<>>
    /\ sel = NoSel
    /\ adapterGot = Pending
    /\ engineGot = Pending

\* echo: the engine calls the chain it built from the middleware given to
\* Use around the route's handler
EngineCall ==
    /\ At(0, "enter", "Engine")
    /\ units' = [units EXCEPT ![0].stack = Append(@, 1)]
    /\ UNCHANGED <<routeVars, libVars, xin, now, ctx, done, emits, xlog, sel, adapterGot, engineGot>>

\* Adapter: if err := handler(c); echo: return handler(NewEchoContext(c))
AdapterCall(u) ==
    /\ At(u, "enter", "Adapter")
    /\ units' = [units EXCEPT ![u].stack = Append(@, Top(u) + 1)]
    /\ UNCHANGED <<routeVars, libVars, xin, now, ctx, done, emits, xlog, sel, adapterGot, engineGot>>

\* A pass-through middleware: pre-logic, then next(c)
EnterOuter(u) ==
    /\ At(u, "enter", "Outer")
    /\ xlog' = Append(xlog, [ev |-> "pre", layer |-> Top(u)])
    /\ units' = [units EXCEPT ![u].stack = Append(@, Top(u) + 1)]
    /\ UNCHANGED <<routeVars, libVars, xin, now, ctx, done, emits, sel, adapterGot, engineGot>>

\* mutant of EnterRateLimiter: the refusal is not returned and next(c) runs
EnterRateLimiterThenNext(u) ==
    /\ At(u, "enter", "RateLimiter")
    /\ xlog' = Append(xlog, [ev |-> "refused", layer |-> Top(u)])
    /\ units' = [units EXCEPT ![u].stack = Append(@, Top(u) + 1)]
    /\ UNCHANGED <<routeVars, libVars, xin, now, ctx, done, emits, sel, adapterGot, engineGot>>

\* RateLimiter, limiter.Allow(key) failed:
\* return NewError(http.StatusTooManyRequests, "rate limit exceeded")
EnterRateLimiter(u) ==
    /\ At(u, "enter", "RateLimiter")
    /\ xlog' = Append(xlog, [ev |-> "refused", layer |-> Top(u)])
    /\ units' = [units EXCEPT
          ![u].stack = Pop(@), ![u].mode = "ret",
          ![u].val = NewError(StatusTooManyRequests, "rate limit exceeded")]
    /\ UNCHANGED <<routeVars, libVars, xin, now, ctx, done, emits, sel, adapterGot, engineGot>>

\* Recover: defer func() { recover() ... }(); return next(c)
EnterRecover(u) ==
    /\ At(u, "enter", "Recover")
    /\ units' = [units EXCEPT ![u].stack = Append(@, Top(u) + 1)]
    /\ UNCHANGED <<routeVars, libVars, xin, now, ctx, done, emits, xlog, sel, adapterGot, engineGot>>

\* Timeout: context.WithTimeout(c.Context(), config.ReadTimeout); c.SetContext(ctx);
\* done := make(chan error, 1); go func() { done <- next(c) }(); select
EnterTimeout(u) ==
    /\ u = 0
    /\ At(u, "enter", "Timeout")
    /\ ctx' = [active |-> TRUE, deadline |-> now + xin.readTimeout,
               isDone |-> FALSE, cause |-> "none"]
    /\ units' = [units EXCEPT
          ![0].mode = "select",
          ![1] = [stack |-> <<Top(0), Top(0) + 1>>, mode |-> "enter",
                  val |-> Nil, left |-> 0]]
    /\ UNCHANGED <<routeVars, libVars, xin, now, done, emits, xlog, sel, adapterGot, engineGot>>

\* The terminal handler starts its work.
EnterHandler(u) ==
    /\ At(u, "enter", "Handler")
    /\ units' = [units EXCEPT ![u].mode = "work", ![u].left = xin.dur]
    /\ UNCHANGED <<routeVars, libVars, xin, now, ctx, done, emits, xlog, sel, adapterGot, engineGot>>

\* The terminal handler has run for its duration: it emits its response if
\* it is one that does, and returns its value or panics.
HandlerFinish(u) ==
    /\ At(u, "work", "Handler")
    /\ units[u].left = 0
    /\ emits' = IF xin.writes
                THEN Append(emits, JSON("Handler", StatusOK, {"data"}, ""))
                ELSE emits
    /\ units' = [units EXCEPT
          ![u].stack = Pop(@),
          ![u].mode = IF xin.outcome.kind = "panic" THEN "panic" ELSE "ret",
          ![u].val = xin.outcome]
    /\ xlog' = IF xin.outcome.kind = "panic"
               THEN Append(xlog, [ev |-> "raised", layer |-> Layers])
               ELSE xlog
    /\ UNCHANGED <<routeVars, libVars, xin, now, ctx, done, sel, adapterGot, engineGot>>

\* next(c) returned into a pass-through middleware: post-logic, return the value
ReturnOuter(u) ==
    /\ At(u, "ret", "Outer")
    /\ xlog' = Append(xlog, [ev |-> "post", layer |-> Top(u)])
    /\ units' = [units EXCEPT ![u].stack = Pop(@)]
    /\ UNCHANGED <<routeVars, libVars, xin, now, ctx, done, emits, sel, adapterGot, engineGot>>

\* Recover: return next(c), nothing to recover
ReturnRecover(u) ==
    /\ At(u, "ret", "Recover")
    /\ units' = [units EXCEPT ![u].stack = Pop(@)]
    /\ UNCHANGED <<routeVars, libVars, xin, now, ctx, done, emits, xlog, sel, adapterGot, engineGot>>

\* mutant of DoneCap: make(chan error)
DoneCapUnbuffered == 1 - 1

\* make(chan error, 1)
DoneCap == 1

\* A send on done completes when the buffer has room, or, on an unbuffered
\* channel, when the receiver waits in the select.
SendEnabled ==
    \/ Len(done) < DoneCap
    \/ DoneCap = 0 /\ units[0].mode = "select" /\ done = <<>>

\* The spawned unit: done <- next(c), and the goroutine ends
GoSend ==
    /\ At(1, "ret", "Timeout")
    /\ SendEnabled
    /\ done' = Append(done, units[1].val)
    /\ sel' = [sel EXCEPT !.sentAt = now, !.sent = units[1].val]
    /\ units' = [units EXCEPT ![1].stack = <<>>, ![1].mode = "exited"]
    /\ UNCHANGED <<routeVars, libVars, xin, now, ctx, emits, xlog, adapterGot, engineGot>>

\* The timer of the derived context fires at its deadline.
Expire ==
    /\ ~Crashed
    /\ ctx.active /\ ~ctx.isDone
    /\ now >= ctx.deadline
    /\ ctx' = [ctx EXCEPT !.isDone = TRUE, !.cause = "deadline"]
    /\ UNCHANGED <<routeVars, libVars, xin, now, units, done, emits, xlog, sel, adapterGot, engineGot>>

\* mutant of TimeoutError: the overrun reported as an internal error
TimeoutErrorAsInternal == NewError(StatusInternalServerError, "request timeout")

\* NewError(http.StatusGatewayTimeout, "request timeout")
TimeoutError == NewError(StatusGatewayTimeout, "request timeout")

\* The context the derived one was made from: context.Background() for the
\* fiber and fasthttp Contexts, the engine's request context for echo, which
\* the engine cancels when the client goes away.
ParentDue ==
    /\ ctx.active /\ ~ctx.isDone
    /\ xin.parentCancelAt # -1
    /\ now >= xin.parentCancelAt

ParentCancel ==
    /\ ~Crashed
    /\ ParentDue
    /\ ctx' = [ctx EXCEPT !.isDone = TRUE, !.cause = "parent"]
    /\ UNCHANGED <<routeVars, libVars, xin, now, units, done, emits, xlog, sel, adapterGot, engineGot>>

\* What Timeout returns out of its select, and the deferred cancel()
SelectReturn(val, rest) ==
    /\ units' = [units EXCEPT ![0].stack = Pop(@), ![0].mode = "ret", ![0].val = val]
    /\ done' = rest
    /\ ctx' = [ctx EXCEPT !.isDone = TRUE,
                          !.cause = IF ctx.isDone THEN @ ELSE "cancel"]
    /\ sel' = [sel EXCEPT !.resolved = TRUE, !.val = val, !.at = now]

\* Timeout: select { case err := <-done: return err
\*                   case <-ctx.Done(): return NewError(504, "request timeout") }
TimeoutSelect ==
    /\ At(0, "select", "Timeout")
    /\ \/ /\ done # <<>>
          /\ SelectReturn(Head(done), Tail(done))
       \/ /\ ctx.isDone
          /\ SelectReturn(TimeoutError, done)
    /\ UNCHANGED <<routeVars, libVars, xin, now, emits, xlog, adapterGot, engineGot>>

\* A panic passes through a pass-through middleware: its post-logic does not run.
UnwindOuter(u) ==
    /\ At(u, "panic", "Outer")
    /\ xlog' = Append(xlog, [ev |-> "unwound", layer |-> Top(u)])
    /\ units' = [units EXCEPT ![u].stack = Pop(@)]
    /\ UNCHANGED <<routeVars, libVars, xin, now, ctx, done, emits, sel, adapterGot, engineGot>>

\* mutant of RecoverResponse: the stack always goes into the body
RecoverResponseWithStack ==
    JSON("Recover", StatusInternalServerError, {"error", "stack"},
         "Internal Server Error: fault")

\* Recover's deferred function: recover() returns the panic value; the
\* custom ErrorHandler or the default c.JSON(500, errResp) answers, and the
\* middleware returns the zero error.
RecoverResponse ==
    IF xin.errorHandler
    THEN [by |-> "ErrorHandler", fn |-> "custom", code |-> 0, fields |-> {}, msg |-> ""]
    ELSE JSON("Recover", StatusInternalServerError,
              IF xin.stackTrace THEN {"error", "stack"} ELSE {"error"},
              "Internal Server Error: fault")

\* mutant of UnwindRecover: the deferred function does not call recover()
UnwindRecoverPasses(u) ==
    /\ At(u, "panic", "Recover")
    /\ xlog' = Append(xlog, [ev |-> "unwound", layer |-> Top(u)])
    /\ units' = [units EXCEPT ![u].stack = Pop(@)]
    /\ UNCHANGED <<routeVars, libVars, xin, now, ctx, done, emits, sel, adapterGot, engineGot>>

UnwindRecover(u) ==
    /\ At(u, "panic", "Recover")
    /\ emits' = Append(emits, RecoverResponse)
    /\ xlog' = Append(xlog, [ev |-> "recovered", layer |-> Top(u)])
    /\ units' = [units EXCEPT ![u].stack = Pop(@), ![u].mode = "ret", ![u].val = Nil]
    /\ UNCHANGED <<routeVars, libVars, xin, now, ctx, done, sel, adapterGot, engineGot>>

\* A panic reaches the function of the spawned goroutine: nothing recovers
\* it and the runtime ends the process.
UnwindGoroutine ==
    /\ At(1, "panic", "Timeout")
    /\ xlog' = Append(xlog, [ev |-> "crash", layer |-> Top(1)])
    /\ units' = [u \in 0..1 |-> [units[u] EXCEPT !.mode = "crashed"]]
    /\ UNCHANGED <<routeVars, libVars, xin, now, ctx, done, emits, sel, adapterGot, engineGot>>

\* A panic passes through the Adapter, which has no deferred function: on
\* fiber and fasthttp it leaves the composed handler into the engine, on
\* echo it goes on into the middleware that called next.
UnwindAdapter(u) ==
    /\ At(u, "panic", "Adapter")
    /\ xlog' = Append(xlog, [ev |-> "unwound", layer |-> Top(u)])
    /\ adapterGot' = Panic
    /\ IF Top(u) = 0
       THEN /\ units' = [units EXCEPT ![u].stack = <<>>, ![u].mode = "exited"]
            /\ engineGot' = Panic
       ELSE /\ units' = [units EXCEPT ![u].stack = Pop(@)]
            /\ UNCHANGED engineGot
    /\ UNCHANGED <<routeVars, libVars, xin, now, ctx, done, emits, sel>>

\* Adapter: the handler it wraps returned; handleError(c, err) for the
\* bindings that have it, and back to the caller: the engine on fiber and
\* fasthttp, the innermost middleware's next on echo
AdapterReturn(u) ==
    /\ At(u, "ret", "Adapter")
    /\ adapterGot' = units[u].val
    /\ emits' = emits \o AdapterEmits(xin.engine, units[u].val)
    /\ IF Top(u) = 0
       THEN /\ units' = [units EXCEPT ![u].stack = <<>>, ![u].mode = "exited"]
            /\ engineGot' = AdapterReturns(xin.engine, units[u].val)
       ELSE /\ units' = [units EXCEPT
                  ![u].stack = Pop(@),
                  ![u].val = AdapterReturns(xin.engine, units[u].val)]
            /\ UNCHANGED engineGot
    /\ UNCHANGED <<routeVars, libVars, xin, now, ctx, done, xlog, sel>>

\* echo: a panic leaves the chain into the engine.
UnwindEngine ==
    /\ At(0, "panic", "Engine")
    /\ units' = [units EXCEPT ![0].stack = <<>>, ![0].mode = "exited"]
    /\ engineGot' = Panic
    /\ UNCHANGED <<routeVars, libVars, xin, now, ctx, done, emits, xlog, sel, adapterGot>>

\* echo: the chain returned to the engine.
EngineReturn ==
    /\ At(0, "ret", "Engine")
    /\ units' = [units EXCEPT ![0].stack = <<>>, ![0].mode = "exited"]
    /\ engineGot' = units[0].val
    /\ UNCHANGED <<routeVars, libVars, xin, now, ctx, done, emits, xlog, sel, adapterGot>>

\* A unit that can take a step without time passing.
Urgent(u) ==
    \/ units[u].mode \in {"enter", "panic"}
    \/ units[u].mode = "ret" /\ ~(u = 1 /\ Len(units[u].stack) = 1 /\ ~SendEnabled)
    \/ units[u].mode = "work" /\ units[u].left = 0
    \/ units[u].mode = "select" /\ (done # <<>> \/ ctx.isDone)

\* Time passes while no unit can step and no timer is due; running handlers
\* get one tick older.
Tick ==
    /\ ~Crashed
    /\ \A u \in 0..1 : ~Urgent(u)
    /\ ~(ctx.active /\ ~ctx.isDone /\ now >= ctx.deadline)
    /\ ~ParentDue
    /\ \/ \E u \in 0..1 : units[u].mode = "work"
       \/ ctx.active /\ ~ctx.isDone
    /\ now' = now + 1
    /\ units' = [u \in 0..1 |->
                   IF units[u].mode = "work"
                   THEN [units[u] EXCEPT !.left = @ - 1] ELSE units[u]]
    /\ UNCHANGED <<routeVars, libVars, xin, ctx, done, emits, xlog, sel, adapterGot, engineGot>>

ExecNext ==
    \/ EngineCall
    \/ \E u \in 0..1 : AdapterCall(u)
    \/ \E u \in 0..1 : EnterOuter(u)
    \/ \E u \in 0..1 : EnterRecover(u)
    \/ \E u \in 0..1 : EnterRateLimiter(u)
    \/ \E u \in 0..1 : EnterTimeout(u)
    \/ \E u \in 0..1 : EnterHandler(u)
    \/ \E u \in 0..1 : HandlerFinish(u)
    \/ \E u \in 0..1 : ReturnOuter(u)
    \/ \E u \in 0..1 : ReturnRecover(u)
    \/ GoSend
    \/ Expire
    \/ ParentCancel
    \/ TimeoutSelect
    \/ \E u \in 0..1 : UnwindOuter(u)
    \/ \E u \in 0..1 : UnwindRecover(u)
    \/ UnwindGoroutine
    \/ \E u \in 0..1 : UnwindAdapter(u)
    \/ \E u \in 0..1 : AdapterReturn(u)
    \/ UnwindEngine
    \/ EngineReturn
    \/ Tick

SpecExec == ExecInit /\ [][ExecNext]_vars

\* A goroutine that can run is eventually run, and timers fire.
SpecExecLive == SpecExec /\ WF_vars(ExecNext)

\* ------------------------------------------------------- CORS middleware
Origins == {"a.com", "b.com", "evil.com"}
RECURSIVE SeqsUpTo(_, _)
SeqsUpTo(S, n) ==
    IF n = 0 THEN { <<>> }
    ELSE LET shorter == SeqsUpTo(S, n - 1)
         IN  shorter \cup { Append(q, x) : q \in shorter, x \in S }
Range(q) == { q[i] : i \in 1..Len(q) }

\* strings.ToUpper and http.CanonicalHeaderKey on the names used here
ToUpper(m) ==
    CASE m = "get" -> "GET" [] m = "post" -> "POST" [] m = "options" -> "OPTIONS"
      [] OTHER -> m
CanonicalHeaderKey(h) ==
    CASE h = "content-type" -> "Content-Type" [] h = "x-token" -> "X-Token"
      [] OTHER -> h
RECURSIVE Join(_, _)
Join(list, sep) ==
    IF list = <<>> THEN <<>>
    ELSE IF Len(list) = 1 THEN list
    ELSE <<Head(list), sep>> \o Join(Tail(list), sep)
Map(list, Op(_)) == [i \in 1..Len(list) |-> Op(list[i])]

\* 24 * time.Hour, in milliseconds
DefaultMaxAge == 86400000
\* time.Duration.Seconds() cut to int64, for a duration in milliseconds;
\* the decimal string strconv.FormatInt makes of it is written as the number.
Seconds(ms) == IF ms >= 0 THEN ms \div 1000 ELSE -((-ms) \div 1000)

\* The configuration CORS works with: the default for nil, and the methods
\* and header names rewritten in place.
Config(c) ==
    IF c.nilConfig
    THEN [allowOrigins |-> <<"*">>,
          allowMethods |-> <<"GET", "HEAD", "PUT", "POST", "DELETE", "PATCH">>,
          allowHeaders |-> <<"Origin", "Content-Type", "Accept">>,
          exposeHeaders |-> <<>>, allowCredentials |-> FALSE,
          maxAge |-> DefaultMaxAge]
    ELSE [allowOrigins |-> c.allowOrigins,
          allowMethods |-> Map(c.allowMethods, ToUpper),
          allowHeaders |-> Map(c.allowHeaders, CanonicalHeaderKey),
          exposeHeaders |-> c.exposeHeaders,
          allowCredentials |-> c.allowCredentials, maxAge |-> c.maxAge]

\* mutant of getAllowedOrigin: a wildcard entry answered with "*"
getAllowedOriginStar(allowedOrigins, origin) ==
    IF Len(allowedOrigins) = 0 THEN "*"
    ELSE IF \E i \in 1..Len(allowedOrigins) : allowedOrigins[i] = "*" THEN "*"
    ELSE IF \E i \in 1..Len(allowedOrigins) : allowedOrigins[i] = origin THEN origin
    ELSE allowedOrigins[1]

RECURSIVE ScanOrigins(_, _, _)
ScanOrigins(allowedOrigins, i, origin) ==
    IF i > Len(allowedOrigins) THEN allowedOrigins[1]
    ELSE IF allowedOrigins[i] = "*" \/ allowedOrigins[i] = origin THEN origin
    ELSE ScanOrigins(allowedOrigins, i + 1, origin)

getAllowedOrigin(allowedOrigins, origin) ==
    IF Len(allowedOrigins) = 0 THEN "*" ELSE ScanOrigins(allowedOrigins, 1, origin)

\* c.SetResponseHeader(key, value)
SetResponseHeader(h, key, value) ==
    [k \in DOMAIN h \cup {key} |-> IF k = key THEN value ELSE h[k]]
NoHeaders == EmptyMap

\* mutant of IsPreflight: the method compared in the wrong case
IsPreflightLowerCase(method) == method = "options"

\* req.Method == http.MethodOptions
IsPreflight(method) == method = "OPTIONS"

\* The headers the middleware sets, in the order it sets them.
CORSHeaders(cfg, method, origin) ==
    LET h1 == SetResponseHeader(NoHeaders, "Access-Control-Allow-Origin",
                                <<getAllowedOrigin(cfg.allowOrigins, origin)>>)
        h2 == IF cfg.allowCredentials
              THEN SetResponseHeader(h1, "Access-Control-Allow-Credentials", <<"true">>)
              ELSE h1
        h3 == SetResponseHeader(h2, "Access-Control-Allow-Methods",
                                Join(cfg.allowMethods, ","))
        h4 == SetResponseHeader(h3, "Access-Control-Allow-Headers",
                                Join(cfg.allowHeaders, ","))
        h5 == IF Len(cfg.exposeHeaders) > 0
              THEN SetResponseHeader(h4, "Access-Control-Expose-Headers",
                                     Join(cfg.exposeHeaders, ","))
              ELSE h4
        h6 == IF cfg.maxAge > 0
              THEN SetResponseHeader(h5, "Access-Control-Max-Age", <<Seconds(cfg.maxAge)>>)
              ELSE h5
    IN  IF IsPreflight(method) THEN h6 ELSE h2

CorsInit ==
    /\ RouteIdle
    /\ ExecIdle
    /\ RateIdle
    /\ RestIdle
    /\ cin \in { c \in [nilConfig : BOOLEAN,
                        allowOrigins : SeqsUpTo({"*", "a.com", "b.com"}, MaxOrigins),
                        allowMethods : { <<>>, <<"get">>, <<"GET", "post">> },
                        allowHeaders : { <<>>, <<"content-type", "X-Token">> },
                        exposeHeaders : { <<>>, <<"X-Id", "X-Page">> },
                        allowCredentials : BOOLEAN,
                        maxAge : {-1000, 0, 500, 2000},
                        method : {"OPTIONS", "GET", "POST"},
                        origin : Origins \cup {""}] :
                  c.nilConfig =>
                     /\ c.allowOrigins = <<>> /\ c.allowMethods = <<>>
                     /\ c.allowHeaders = <<>> /\ c.exposeHeaders = <<>>
                     /\ ~c.allowCredentials /\ c.maxAge = 0 }
    /\ cpc = "recv"
    /\ chdr = NoHeaders
    /\ cemit = <<>>
    /\ ccalls = 0

\* The closure CORS returns, up to its return c.String(204, "") or its
\* call of next(c).
CORS ==
    /\ cpc = "recv"
    /\ chdr' = CORSHeaders(Config(cin), cin.method, cin.origin)
    /\ IF IsPreflight(cin.method)
       THEN /\ cemit' = Append(cemit, [fn |-> "String", code |-> StatusNoContent,
                                       body |-> <<>>])
            /\ cpc' = "done"
       ELSE /\ cemit' = cemit
            /\ cpc' = "next"
    /\ UNCHANGED <<cin, ccalls, notCors>>

\* return next(c): the wrapped handler runs.
CORSNext ==
    /\ cpc = "next"
    /\ ccalls' = ccalls + 1
    /\ cpc' = "done"
    /\ UNCHANGED <<cin, chdr, cemit, notCors>>

CorsNext == CORS \/ CORSNext

SpecCORS == CorsInit /\ [][CorsNext]_vars

\* ------------------------------------------------- RateLimiter middleware
Keys == {"k1", "k2"}
Min(a, b) == IF a <= b THEN a ELSE b

\* mutant of NewLimiter: the two arguments in the wrong order
NewLimiterSwapped(r, b) ==
    [limit |-> b, burst |-> r, stok |-> r * TicksPerSec, last |-> 0]

\* rate.NewLimiter(rate.Limit(r), b): a bucket of b tokens, full.  Tokens are
\* counted in TicksPerSec-ths, so that r tokens a second are r of them a tick.
NewLimiter(r, b) ==
    [limit |-> r, burst |-> b, stok |-> b * TicksPerSec, last |-> 0]

\* The tokens of the limiter at time t: those it had at its last admission
\* and those come since, no more than the burst.
Advance(lim, t) ==
    Min(lim.burst * TicksPerSec, lim.stok + (t - lim.last) * lim.limit)

\* limiter.Allow() at time t: whether one token is there, and the limiter
\* after it.  A limit of zero hands out the burst once; a refusal changes
\* nothing.
LimiterAllow(lim, t) ==
    IF lim.limit = 0
    THEN IF lim.burst >= 1
         THEN [ok |-> TRUE, lim |-> [lim EXCEPT !.burst = @ - 1]]
         ELSE [ok |-> FALSE, lim |-> lim]
    ELSE LET tokens == Advance(lim, t) - TicksPerSec
         IN  IF tokens >= 0 /\ lim.burst >= 1
             THEN [ok |-> TRUE, lim |-> [lim EXCEPT !.stok = tokens, !.last = t]]
             ELSE [ok |-> FALSE, lim |-> lim]

\* RateLimit.getLimiter: the key's limiter, made on first sight of the key
getLimiter(st, key) ==
    IF key \in DOMAIN st THEN st
    ELSE [k \in DOMAIN st \cup {key} |->
            IF k = key THEN NewLimiter(rcfg.requestsPerSecond, rcfg.burstSize)
            ELSE st[k]]

RateInit ==
    /\ RouteIdle
    /\ ExecIdle
    /\ CorsIdle
    /\ RestIdle
    /\ rcfg \in [requestsPerSecond : 0..MaxRate, burstSize : 0..MaxBurst]
    /\ rclock = 0
    /\ store = EmptyMap
    /\ rhist = <<>>
    /\ rproc = [p \in 1..MaxProc |-> NoRequest]

\* Requests that entered the middleware so far: those whose limiter.Allow()
\* was made and those that hold a limiter and have not asked it yet.
RateBegun == Len(rhist) + Cardinality({p \in 1..MaxProc : rproc[p].pc = "fetched"})

\* The closure RateLimiter returns, entered by goroutine p for a request with
\* key k: key := config.KeyFunc(c), and in limiter.Allow(key) the call of
\* rl.getLimiter(key), one critical section under rl.mu.  The goroutine now
\* holds the key's limiter and has not yet taken a token.
RateLimiter(p, k) ==
    /\ rproc[p].pc = "idle"
    /\ RateBegun < MaxReq
    /\ store' = getLimiter(store, k)
    /\ rproc' = [rproc EXCEPT ![p] = [pc |-> "fetched", key |-> k, idx |-> 0]]
    /\ UNCHANGED <<rcfg, rclock, rhist, notRate>>

\* RateLimit.Allow, after getLimiter: limiter.Allow() on the limiter fetched
\* (under the limiter's own lock), at the time it is made.  The history
\* keeps the calls in the order the limiter took them.
RateAllow(p) ==
    /\ rproc[p].pc = "fetched"
    /\ LET k   == rproc[p].key
           res == LimiterAllow(store[k], rclock)
       IN  /\ store' = [store EXCEPT ![k] = res.lim]
           /\ rhist' = Append(rhist,
                  [key |-> k, at |-> rclock, ok |-> res.ok, returned |-> FALSE,
                   called |-> FALSE, err |-> Nil])
    /\ rproc' = [rproc EXCEPT ![p].pc = "decided", ![p].idx = Len(rhist) + 1]
    /\ UNCHANGED <<rcfg, rclock, notRate>>

\* The end of the closure: return NewError(429, ...) when Allow gave an
\* error, return next(c) otherwise.
RateReturn(p) ==
    /\ rproc[p].pc = "decided"
    /\ LET i == rproc[p].idx
       IN  rhist' = [rhist EXCEPT
              ![i].returned = TRUE,
              ![i].called = rhist[i].ok,
              ![i].err = IF rhist[i].ok THEN Nil
                         ELSE NewError(StatusTooManyRequests, "rate limit exceeded")]
    /\ rproc' = [rproc EXCEPT ![p] = NoRequest]
    /\ UNCHANGED <<rcfg, rclock, store, notRate>>

RateTick ==
    /\ rclock < MaxTicks
    /\ rclock' = rclock + 1
    /\ UNCHANGED <<rcfg, store, rhist, rproc, notRate>>

RateNext ==
    \/ \E p \in 1..MaxProc, k \in Keys : RateLimiter(p, k)
    \/ \E p \in 1..MaxProc : RateAllow(p)
    \/ \E p \in 1..MaxProc : RateReturn(p)
    \/ RateTick

SpecRate == RateInit /\ [][RateNext]_vars

\* ------------------------------- RateLimiter under concurrent requests
Procs == 1..MaxProc

LimInit ==
    /\ RouteIdle /\ ExecIdle /\ CorsIdle /\ RateIdle
    /\ AuthIdle /\ CacheIdle /\ CtxIdle /\ WireIdle /\ UpIdle /\ CliIdle
    /\ lcfg \in [requestsPerSecond : 0..MaxRate, burstSize : 0..MaxBurst]
    /\ lclock = 0
    /\ lmu = 0
    /\ lproc = [p \in Procs |-> NoProc]
    /\ lheap = <<>>
    /\ lstore = EmptyMap
    /\ lhist = <<>>

\* Requests begun so far: those decided and those in flight.
Begun == Len(lhist) + Cardinality({p \in Procs : lproc[p].pc # "idle"})

\* A request arrives: key := config.KeyFunc(c), limiter.Allow(key) is entered
LimBegin(p, k) ==
    /\ lproc[p].pc = "idle"
    /\ Begun < MaxConcReq
    /\ lproc' = [lproc EXCEPT ![p] = [pc |-> "lock", key |-> k, lim |-> 0]]
    /\ UNCHANGED <<lcfg, lclock, lmu, lheap, lstore, lhist, notLim>>

\* mutant of LimLock: the lock taken without waiting for it
LimLockNoWait(p) ==
    /\ lproc[p].pc = "lock"
    /\ lmu' = p
    /\ lproc' = [lproc EXCEPT ![p].pc = "lookup"]
    /\ UNCHANGED <<lcfg, lclock, lheap, lstore, lhist, notLim>>

\* getLimiter: rl.mu.Lock()
LimLock(p) ==
    /\ lproc[p].pc = "lock"
    /\ lmu = 0
    /\ lmu' = p
    /\ lproc' = [lproc EXCEPT ![p].pc = "lookup"]
    /\ UNCHANGED <<lcfg, lclock, lheap, lstore, lhist, notLim>>

\* getLimiter: limiter, exists := rl.store[key]
LimLookup(p) ==
    /\ lproc[p].pc = "lookup"
    /\ lproc' = [lproc EXCEPT
          ![p].pc = IF lproc[p].key \in DOMAIN lstore THEN "unlock" ELSE "create",
          ![p].lim = IF lproc[p].key \in DOMAIN lstore THEN lstore[lproc[p].key] ELSE 0]
    /\ UNCHANGED <<lcfg, lclock, lmu, lheap, lstore, lhist, notLim>>

\* getLimiter: limiter = rate.NewLimiter(...); rl.store[key] = limiter
LimCreate(p) ==
    /\ lproc[p].pc = "create"
    /\ lheap' = Append(lheap,
          [forKey |-> lproc[p].key,
           lim |-> NewLimiter(lcfg.requestsPerSecond, lcfg.burstSize)])
    /\ lstore' = [k \in DOMAIN lstore \cup {lproc[p].key} |->
                    IF k = lproc[p].key THEN Len(lheap) + 1 ELSE lstore[k]]
    /\ lproc' = [lproc EXCEPT ![p].pc = "unlock", ![p].lim = Len(lheap) + 1]
    /\ UNCHANGED <<lcfg, lclock, lmu, lhist, notLim>>

\* getLimiter: the deferred rl.mu.Unlock(), and the return of the limiter
LimUnlock(p) ==
    /\ lproc[p].pc = "unlock"
    /\ lmu' = IF lmu = p THEN 0 ELSE lmu
    /\ lproc' = [lproc EXCEPT ![p].pc = "allow"]
    /\ UNCHANGED <<lcfg, lclock, lheap, lstore, lhist, notLim>>

\* Allow: limiter.Allow() on the limiter getLimiter returned (the limiter
\* has its own lock).  What the closure returns after it touches nothing the
\* requests share; RateReturn is that step.
LimAllow(p) ==
    /\ lproc[p].pc = "allow"
    /\ LET res == LimiterAllow(lheap[lproc[p].lim].lim, lclock)
       IN  /\ lheap' = [lheap EXCEPT ![lproc[p].lim].lim = res.lim]
           /\ lhist' = Append(lhist, [key |-> lproc[p].key, at |-> lclock,
                                      ok |-> res.ok, lim |-> lproc[p].lim])
    /\ lproc' = [lproc EXCEPT ![p] = NoProc]
    /\ UNCHANGED <<lcfg, lclock, lmu, lstore, notLim>>

LimTick ==
    /\ lclock < MaxConcTicks
    /\ lclock' = lclock + 1
    /\ UNCHANGED <<lcfg, lmu, lproc, lheap, lstore, lhist, notLim>>

LimNext ==
    \/ \E p \in Procs, k \in Keys : LimBegin(p, k)
    \/ \E p \in Procs : LimLock(p)
    \/ \E p \in Procs : LimLookup(p)
    \/ \E p \in Procs : LimCreate(p)
    \/ \E p \in Procs : LimUnlock(p)
    \/ \E p \in Procs : LimAllow(p)
    \/ LimTick

SpecLimiter == LimInit /\ [][LimNext]_vars

\* ------------------------------------------------ claims under SpecLimiter
InMap(p) == lproc[p].pc \in {"lookup", "create", "unlock"}

\* The limiter a key's own decisions, in their order, leave behind.
RECURSIVE Replay(_, _, _)
Replay(q, i, lim) ==
    IF i > Len(q) THEN lim
    ELSE Replay(q, i + 1, LimiterAllow(lim, q[i].at).lim)
LimForKey(k) == SelectSeq(lhist, LAMBDA e : e.key = k)

\* C11: in every interleaving of concurrent requests through one
\* RateLimiter the per-key map is accessed under mutual exclusion and maps
\* each key seen so far to exactly one limiter, created on first sight and
\* never replaced or removed; concurrent first requests for one new key
\* share one bucket, and tokens consumed under one key are never charged to
\* another key.
C11_OneLimiterPerKey ==
    /\ \A p, q \in Procs : (InMap(p) /\ InMap(q)) => p = q
    /\ \A p \in Procs : InMap(p) => lmu = p
    /\ \A i \in 1..Len(lheap) :
          lheap[i].forKey \in DOMAIN lstore /\ lstore[lheap[i].forKey] = i
    /\ \A k \in DOMAIN lstore : lstore[k] \in 1..Len(lheap)
    /\ \A p \in Procs :
          lproc[p].pc \in {"unlock", "allow"} =>
             (lproc[p].key \in DOMAIN lstore /\ lproc[p].lim = lstore[lproc[p].key])
    /\ \A i \in 1..Len(lhist) : lhist[i].lim = lstore[lhist[i].key]
    /\ \A k \in DOMAIN lstore :
          lheap[lstore[k]].lim =
             Replay(LimForKey(k), 1, NewLimiter(lcfg.requestsPerSecond, lcfg.burstSize))

C11_Witness ==
    /\ lproc[1].pc = "allow" /\ lproc[2].pc = "allow"
    /\ lproc[1].key = "k1" /\ lproc[2].key = "k1"
    /\ lproc[1].lim = lproc[2].lim
    /\ Len(lheap) = 1 /\ lhist = <<>>
    /\ lcfg.burstSize = 1

\* -------------------------------------------------- BasicAuth middleware
\* Names and passwords are sequences of characters.  A base64 text is the
\* record of what it encodes; what is no base64 text encodes nothing.
Base64(text) == [b64 |-> TRUE, text |-> text]
NotBase64 == [b64 |-> FALSE, text |-> <<>>]
Users == { <<"u">>, <<"a", "d">> }
Passwords == { <<"p">>, <<"p", ":", "q">>, <<>> }

\* The Authorization header a client sends: none, another scheme, or Basic
\* with the credentials ruser/rpass encoded, with a text that is no base64,
\* with a base64 text without a colon, or with no token at all.
AuthHeader(a) ==
    CASE a.kind = "none"    -> <<>>
      [] a.kind = "bearer"  -> <<"Bearer", " ", Base64(a.ruser \o <<":">> \o a.rpass)>>
      [] a.kind = "basic"   -> <<"Basic", " ", Base64(a.ruser \o <<":">> \o a.rpass)>>
      [] a.kind = "garbage" -> <<"Basic", " ", NotBase64>>
      [] a.kind = "nocolon" -> <<"Basic", " ", Base64(a.ruser)>>
      [] OTHER              -> <<"Basic">>

\* encryption.GetAuthorizationFromHeader: the scheme and the token of the header
GetAuthorizationFromHeader(raw) ==
    [type  |-> IF Len(raw) >= 1 THEN raw[1] ELSE "",
     token |-> IF Len(raw) >= 3 THEN raw[3] ELSE NotBase64]

RECURSIVE IndexOfColon(_, _)
IndexOfColon(text, i) ==
    IF i > Len(text) THEN 0
    ELSE IF text[i] = ":" THEN i
    ELSE IndexOfColon(text, i + 1)

\* encryption.GetClientIDSecretFromTokenString: the token decoded and cut at
\* its first colon
GetClientIDSecretFromTokenString(token) ==
    LET at == IndexOfColon(token.text, 1)
    IN  IF ~token.b64 \/ at = 0
        THEN [err |-> TRUE, user |-> <<>>, pass |-> <<>>]
        ELSE [err |-> FALSE,
              user |-> SubSeq(token.text, 1, at - 1),
              pass |-> SubSeq(token.text, at + 1, Len(token.text))]

\* mutant of validateBasicAuth: the password is not compared
validateBasicAuthUserOnly(auth, username, password) ==
    LET h == GetAuthorizationFromHeader(auth)
        c == GetClientIDSecretFromTokenString(h.token)
    IN  IF Len(auth) = 0 \/ h.type # "Basic" THEN FALSE
        ELSE ~c.err /\ c.user = username

validateBasicAuth(auth, username, password) ==
    LET h == GetAuthorizationFromHeader(auth)
        c == GetClientIDSecretFromTokenString(h.token)
    IN  IF Len(auth) = 0 \/ h.type # "Basic" THEN FALSE
        ELSE ~c.err /\ c.user = username /\ c.pass = password

AuthInit ==
    /\ RouteIdle /\ ExecIdle /\ CorsIdle /\ RateIdle
    /\ LimIdle /\ CacheIdle /\ CtxIdle /\ WireIdle /\ UpIdle /\ CliIdle
    /\ ain \in { a \in [user : Users, pass : Passwords,
                        kind : {"none", "bearer", "basic", "garbage", "nocolon", "notoken"},
                        ruser : Users, rpass : Passwords] :
                    a.kind \in {"none", "garbage", "notoken"} =>
                        (a.ruser = a.user /\ a.rpass = a.pass) }
    /\ apc = "recv"
    /\ aemit = <<>>
    /\ acalls = 0

\* The closure BasicAuth returns, up to its return c.JSON(401, ...) or its
\* call of next(c).
BasicAuth ==
    /\ apc = "recv"
    /\ IF validateBasicAuth(AuthHeader(ain), ain.user, ain.pass)
       THEN /\ apc' = "next"
            /\ aemit' = aemit
       ELSE /\ apc' = "done"
            /\ aemit' = Append(aemit, JSON("BasicAuth", StatusUnauthorized,
                                           {"error"}, "unauthorized"))
    /\ UNCHANGED <<ain, acalls, notAuth>>

\* return next(c): the wrapped handler runs.
AuthNext ==
    /\ apc = "next"
    /\ acalls' = acalls + 1
    /\ apc' = "done"
    /\ UNCHANGED <<ain, aemit, notAuth>>

AuthSteps == BasicAuth \/ AuthNext

SpecAuth == AuthInit /\ [][AuthSteps]_vars

\* --------------------------------------------------- claims under SpecAuth
\* The client sent Basic credentials, and they are the configured ones.
RightCredentials ==
    ain.kind = "basic" /\ ain.ruser = ain.user /\ ain.rpass = ain.pass

\* C12: BasicAuth(u, p): a request with no Authorization header, with a
\* scheme other than Basic, or with credentials different from u/p receives
\* a 401 response and the wrapped handler is not invoked; a request with
\* correctly encoded Basic credentials for u/p reaches the wrapped handler
\* exactly once and gets no 401 from this middleware.
C12_BasicAuth ==
    apc # "recv" =>
       IF RightCredentials
       THEN aemit = <<>> /\ acalls = (IF apc = "done" THEN 1 ELSE 0)
       ELSE /\ apc = "done" /\ acalls = 0
            /\ Len(aemit) = 1 /\ aemit[1].code = 401 /\ aemit[1].fn = "JSON"

C12_Witness ==
    /\ apc = "done" /\ acalls = 0 /\ Len(aemit) = 1
    /\ ain.kind = "basic" /\ ain.ruser = ain.user /\ ain.rpass # ain.pass

C12_WitnessPass ==
    /\ apc = "done" /\ acalls = 1 /\ RightCredentials
    /\ ain.pass = <<"p", ":", "q">>

\* ------------------------------------- cache middleware and MemoryCache
\* Two concurrent callers: the least number that can be in the map together.
CacheProcs == {1, 2}
CacheValues == {"v1", "v2"}

\* The calls made on the store: by the middleware (a request, which starts
\* with Store.Get) and by the application (Get, Set, Delete, Clear).
CacheCalls ==
    { [op |-> "request", key |-> k, val |-> "", ttl |-> 0] : k \in CacheKeys }
    \cup { [op |-> "get", key |-> k, val |-> "", ttl |-> 0] : k \in CacheKeys }
    \cup { [op |-> "set", key |-> k, val |-> v, ttl |-> t] :
              k \in CacheKeys, v \in CacheValues, t \in {0, MaxTTL} }
    \cup { [op |-> "delete", key |-> k, val |-> "", ttl |-> 0] : k \in CacheKeys }
    \cup { [op |-> "clear", key |-> "", val |-> "", ttl |-> 0] }

CacheInit ==
    /\ RouteIdle /\ ExecIdle /\ CorsIdle /\ RateIdle
    /\ LimIdle /\ AuthIdle /\ CtxIdle /\ WireIdle /\ UpIdle /\ CliIdle
    /\ mttl = MaxTTL
    /\ mclock = 0
    /\ mdata = EmptyMap
    /\ mproc = [p \in CacheProcs |-> NoCall]
    /\ mbegun = 0
    /\ mlast = [k \in CacheKeys |-> NeverSet]
    /\ mserved = [k \in CacheKeys |-> NotServed]
    /\ mraced = FALSE
    /\ mcrashed = FALSE

InData(p) == mproc[p].pc = "map"
WritesData(op) == op \in {"set", "delete", "clear"}

\* Two calls are in the map at once and one of them writes it.
Racing ==
    \E p, q \in CacheProcs :
       /\ p # q /\ InData(p) /\ InData(q)
       /\ WritesData(mproc[p].op) \/ WritesData(mproc[q].op)

\* What the claim about expiry expects of Get(k) now: the value of the last
\* Set of k, if no Delete or Clear followed it and no more than its ttl has
\* passed since.
Expected(k) ==
    IF mlast[k].set /\ mclock <= mlast[k].at + mlast[k].ttl
    THEN <<mlast[k].val, TRUE>> ELSE <<"", FALSE>>

\* A caller enters Get, Set, Delete or Clear, or a request enters the
\* middleware and its Store.Get(key).  None of the four takes the lock the
\* MemoryCache embeds: the caller is in the map at once.
MemBegin(p, call) ==
    /\ ~mcrashed
    /\ mproc[p].pc = "idle"
    /\ mbegun < MaxCacheOps
    /\ mbegun' = mbegun + 1
    /\ mproc' = [mproc EXCEPT ![p] =
          [NoCall EXCEPT !.pc = "map", !.op = call.op, !.key = call.key,
                         !.val = call.val, !.ttl = call.ttl,
                         !.prior = IF call.op = "request" THEN mserved[call.key]
                                   ELSE NotServed,
                         !.beginAt = IF call.op = "request" THEN mclock ELSE 0]]
    /\ mraced' = (mraced \/ \E q \in CacheProcs :
                     q # p /\ InData(q) /\ (WritesData(call.op) \/ WritesData(mproc[q].op)))
    /\ UNCHANGED <<mttl, mclock, mdata, mlast, mserved, mcrashed, notCache>>

\* mutant of After: an item counts as expired at its expiration time already
AfterOrAt(t, expiration) == t >= expiration

\* time.Now().After(item.expiration)
After(t, expiration) == t > expiration

\* MemoryCache.Get on the map as it is
MemGet(key) ==
    IF key \notin DOMAIN mdata \/ After(mclock, mdata[key].expiration)
    THEN <<"", FALSE>>
    ELSE <<mdata[key].value, TRUE>>

\* Get, or the Get of a request: the map is read.
MemRead(p) ==
    /\ ~mcrashed
    /\ InData(p) /\ mproc[p].op \in {"get", "request"}
    /\ mproc' = [mproc EXCEPT
          ![p].pc = IF mproc[p].op = "get" THEN "idle"
                    ELSE IF MemGet(mproc[p].key)[2] THEN "hit" ELSE "miss",
          ![p].got = MemGet(mproc[p].key)[1],
          ![p].found = MemGet(mproc[p].key)[2],
          ![p].want = Expected(mproc[p].key)]
    /\ UNCHANGED <<mttl, mclock, mdata, mbegun, mlast, mserved, mraced, mcrashed, notCache>>

\* Set: c.data[key] = cacheItem{value, time.Now().Add(ttl)}
MemSet(p) ==
    /\ ~mcrashed
    /\ InData(p) /\ mproc[p].op = "set"
    /\ mdata' = [k \in DOMAIN mdata \cup {mproc[p].key} |->
                   IF k = mproc[p].key
                   THEN [value |-> mproc[p].val, expiration |-> mclock + mproc[p].ttl]
                   ELSE mdata[k]]
    /\ mlast' = [mlast EXCEPT ![mproc[p].key] =
                   [set |-> TRUE, val |-> mproc[p].val, at |-> mclock, ttl |-> mproc[p].ttl]]
    /\ mserved' = [mserved EXCEPT ![mproc[p].key] = NotServed]
    /\ mproc' = [mproc EXCEPT ![p] = NoCall]
    /\ UNCHANGED <<mttl, mclock, mbegun, mraced, mcrashed, notCache>>

\* Delete: delete(c.data, key)
MemDelete(p) ==
    /\ ~mcrashed
    /\ InData(p) /\ mproc[p].op = "delete"
    /\ mdata' = [k \in DOMAIN mdata \ {mproc[p].key} |-> mdata[k]]
    /\ mlast' = [mlast EXCEPT ![mproc[p].key] = NeverSet]
    /\ mserved' = [mserved EXCEPT ![mproc[p].key] = NotServed]
    /\ mproc' = [mproc EXCEPT ![p] = NoCall]
    /\ UNCHANGED <<mttl, mclock, mbegun, mraced, mcrashed, notCache>>

\* Clear: c.data = make(map[string]cacheItem)
MemClear(p) ==
    /\ ~mcrashed
    /\ InData(p) /\ mproc[p].op = "clear"
    /\ mdata' = EmptyMap
    /\ mlast' = [k \in CacheKeys |-> NeverSet]
    /\ mserved' = [k \in CacheKeys |-> NotServed]
    /\ mproc' = [mproc EXCEPT ![p] = NoCall]
    /\ UNCHANGED <<mttl, mclock, mbegun, mraced, mcrashed, notCache>>

\* mutant of CacheHit: the hit is answered and the handler runs all the same
CacheHitFallsThrough(p) ==
    /\ ~mcrashed
    /\ mproc[p].pc = "hit"
    /\ mproc' = [mproc EXCEPT
          ![p].pc = "miss",
          ![p].emitted = Append(@, JSON("SimpleCache", StatusOK, {"cached"}, mproc[p].got))]
    /\ UNCHANGED <<mttl, mclock, mdata, mbegun, mlast, mserved, mraced, mcrashed, notCache>>

\* SimpleCache, found: return c.JSON(http.StatusOK, cached)
CacheHit(p) ==
    /\ ~mcrashed
    /\ mproc[p].pc = "hit"
    /\ mproc' = [mproc EXCEPT
          ![p].pc = "idle",
          ![p].emitted = Append(@, JSON("SimpleCache", StatusOK, {"cached"}, mproc[p].got)),
          ![p].ret = Nil]
    /\ UNCHANGED <<mttl, mclock, mdata, mbegun, mlast, mserved, mraced, mcrashed, notCache>>

\* SimpleCache, not found: return next(c).  The handler serves the request;
\* nothing is written to the store.
CacheMiss(p, hret) ==
    /\ ~mcrashed
    /\ mproc[p].pc = "miss"
    /\ mproc' = [mproc EXCEPT
          ![p].pc = "idle", ![p].calls = @ + 1, ![p].hret = hret, ![p].ret = hret]
    /\ mserved' = [mserved EXCEPT ![mproc[p].key] = [served |-> TRUE, at |-> mclock]]
    /\ UNCHANGED <<mttl, mclock, mdata, mbegun, mlast, mraced, mcrashed, notCache>>

\* The runtime finds the map read or written while it is being written and
\* ends the process; it may also not find it.
MemFault ==
    /\ ~mcrashed
    /\ Racing
    /\ mcrashed' = TRUE
    /\ UNCHANGED <<mttl, mclock, mdata, mproc, mbegun, mlast, mserved, mraced, notCache>>

MemTick ==
    /\ ~mcrashed
    /\ mclock < MaxCacheTicks
    /\ mclock' = mclock + 1
    /\ UNCHANGED <<mttl, mdata, mproc, mbegun, mlast, mserved, mraced, mcrashed, notCache>>

CacheNext ==
    \/ \E p \in CacheProcs, call \in CacheCalls : MemBegin(p, call)
    \/ \E p \in CacheProcs : MemRead(p)
    \/ \E p \in CacheProcs : MemSet(p)
    \/ \E p \in CacheProcs : MemDelete(p)
    \/ \E p \in CacheProcs : MemClear(p)
    \/ \E p \in CacheProcs : CacheHit(p)
    \/ \E p \in CacheProcs, hret \in {Nil, Opaque("boom")} : CacheMiss(p, hret)
    \/ MemFault
    \/ MemTick

SpecCache == CacheInit /\ [][CacheNext]_vars

\* -------------------------------------------------- claims under SpecCache
\* A request has gone through the cache middleware.
Answered(p) == mproc[p].pc = "idle" /\ mproc[p].op = "request"
\* A Get, or the Get of a request, has read the map.
HasRead(p) == mproc[p].op \in {"get", "request"} /\ mproc[p].pc # "map"
HitAnswer(p) == <<JSON("SimpleCache", StatusOK, {"cached"}, mproc[p].got)>>

\* C13: after a request that missed the cache has been served by the
\* wrapped handler, a repeat request with the same key, begun within the TTL
\* with no Set, Delete or Clear in between, is answered from the store and
\* the wrapped handler is not invoked again.
C13_RepeatServedFromStore ==
    \A p \in CacheProcs :
       ( /\ Answered(p)
         /\ mproc[p].prior.served
         /\ mproc[p].beginAt <= mproc[p].prior.at + mttl
         /\ ~mraced )
       => (mproc[p].calls = 0 /\ mproc[p].emitted = HitAnswer(p))

\* C14: a request whose Get found its key is answered with the cached value
\* as JSON with status 200 and the wrapped handler is not invoked; a request
\* whose Get did not find it has the wrapped handler invoked exactly once,
\* the middleware emits nothing itself and returns what the handler returned.
C14_HitOrMiss ==
    \A p \in CacheProcs :
       /\ mproc[p].pc = "hit" => (mproc[p].found /\ mproc[p].calls = 0)
       /\ mproc[p].pc = "miss" => (~mproc[p].found /\ mproc[p].calls = 0)
       /\ Answered(p) =>
            IF mproc[p].found
            THEN /\ mproc[p].emitted = HitAnswer(p)
                 /\ mproc[p].calls = 0
                 /\ mproc[p].ret = Nil
            ELSE /\ mproc[p].emitted = <<>>
                 /\ mproc[p].calls = 1
                 /\ mproc[p].ret = mproc[p].hret

C14_Witness ==
    \E p, q \in CacheProcs :
       /\ Answered(p) /\ mproc[p].found /\ mproc[p].got = "v2"
       /\ mproc[p].emitted = HitAnswer(p)
       /\ Answered(q) /\ ~mproc[q].found /\ mproc[q].ret = Opaque("boom")

\* C15: no Set, Delete or Clear is in the data map while another call is in
\* it.
C15_MapAccessExclusive == ~Racing

\* C16: as long as no two calls met in the map, every Get gives the value of
\* the last Set of its key and true if no Delete or Clear followed that Set
\* and no more than its ttl has passed since, and nothing and false
\* otherwise; and the map holds exactly the keys set and not deleted or
\* cleared since, expired or not: no Get removes an entry.
C16_Expiry ==
    ~mraced =>
       /\ \A p \in CacheProcs :
             HasRead(p) => <<mproc[p].got, mproc[p].found>> = mproc[p].want
       /\ DOMAIN mdata = {k \in CacheKeys : mlast[k].set}

\* A Get has found its key expired, at a time when the key had been set a
\* second time with another value, and the entry is still in the map.
C16_Witness ==
    \E p \in CacheProcs :
       /\ ~mraced
       /\ mproc[p].op = "get" /\ mproc[p].pc = "idle"
       /\ ~mproc[p].found
       /\ mproc[p].key \in DOMAIN mdata
       /\ mdata[mproc[p].key].value = "v2"
       /\ mclock > mdata[mproc[p].key].expiration
       /\ mbegun = MaxCacheOps

\* A Get at the very end of the ttl finds the value.
C16_WitnessFound ==
    \E p \in CacheProcs :
       /\ ~mraced
       /\ mproc[p].op = "get" /\ mproc[p].pc = "idle"
       /\ mproc[p].found /\ mproc[p].got = "v1"
       /\ mproc[p].key \in DOMAIN mdata
       /\ mclock = mdata[mproc[p].key].expiration
       /\ mclock > 0

\* ------------------------------------------- the Context of one request
CtxEngines == {"fiber", "fasthttp", "echo"}
HeaderValues == {"a", "b"}

\* http.Header.Get: the first value under the name
HeaderGet(h, key) == h[key]

\* RequestHeader.FromHttpRequest, for the headers of the model
FromHttpRequest(h) ==
    [RequestID |-> HeaderGet(h, HEADER_REQUEST_ID), Origin |-> HeaderGet(h, HEADER_ORIGIN)]

\* mutant of FHHeaders: string values of the store are laid over the headers
FHHeadersWithStore(rq, rs, st) ==
    [k \in HeaderKeys |->
        IF st[k].kind = "string" THEN st[k].str
        ELSE IF rq[k] # "" THEN rq[k] ELSE rs[k]]

\* fasthttp GetHeaders: the request headers are added to an http.Header,
\* then the response headers; the store is left out.
FHHeaders(rq, rs, st) == [k \in HeaderKeys |-> IF rq[k] # "" THEN rq[k] ELSE rs[k]]

\* GetHeader(key) of each binding
GetHeader(e, rq, rs, key) ==
    IF e = "fasthttp" THEN (IF rs[key] # "" THEN rs[key] ELSE rq[key])
    ELSE rq[key]

\* GetHeaders() of each binding
GetHeaders(e, rq, rs, st) ==
    IF e = "fiber" THEN
        IF st[HEADER_PARSED_KEY].kind = "snapshot" THEN st[HEADER_PARSED_KEY].snap
        ELSE FromHttpRequest(rq)
    ELSE IF e = "fasthttp" THEN FromHttpRequest(FHHeaders(rq, rs, st))
    ELSE FromHttpRequest(rq)

CtxInit ==
    /\ RouteIdle /\ ExecIdle /\ CorsIdle /\ RateIdle
    /\ LimIdle /\ AuthIdle /\ CacheIdle /\ WireIdle /\ UpIdle /\ CliIdle
    /\ hengine \in CtxEngines
    /\ hreq \in {NoHeader, [NoHeader EXCEPT ![HEADER_ORIGIN] = "a"]}
    /\ hresp = NoHeader
    /\ hstore = [k \in StoreKeys |-> NoValue]
    /\ hbody \in SeqsUpTo({"x"}, MaxBody)
    /\ hstream = hbody
    /\ hops = 0
    /\ hlast = NoHeader
    /\ hprev = NoSnapshot
    /\ hget = NoGet /\ hsnap = NoGetHeaders /\ hread = NoRead

CtxStep ==
    /\ hops < MaxCtxOps
    /\ hops' = hops + 1
    /\ UNCHANGED <<hengine, hbody, notCtx>>

\* SetRequestHeader(key, value)
CtxSetRequestHeader(key, value) ==
    /\ CtxStep
    /\ hreq' = [hreq EXCEPT ![key] = value]
    /\ hlast' = [hlast EXCEPT ![key] = value]
    /\ hprev' = NoSnapshot
    /\ UNCHANGED <<hresp, hstore, hstream, hget, hsnap, hread>>

\* SetResponseHeader(key, value)
CtxSetResponseHeader(key, value) ==
    /\ CtxStep
    /\ hresp' = [hresp EXCEPT ![key] = value]
    /\ hlast' = [hlast EXCEPT ![key] = value]
    /\ hprev' = NoSnapshot
    /\ UNCHANGED <<hreq, hstore, hstream, hget, hsnap, hread>>

\* SetHeader(key, value): both
CtxSetHeader(key, value) ==
    /\ CtxStep
    /\ hreq' = [hreq EXCEPT ![key] = value]
    /\ hresp' = [hresp EXCEPT ![key] = value]
    /\ hlast' = [hlast EXCEPT ![key] = value]
    /\ hprev' = NoSnapshot
    /\ UNCHANGED <<hstore, hstream, hget, hsnap, hread>>

\* GetHeader(key)
CtxGetHeader(key) ==
    /\ CtxStep
    /\ hget' = [done |-> TRUE, key |-> key,
                val |-> GetHeader(hengine, hreq, hresp, key), want |-> hlast[key]]
    /\ UNCHANGED <<hreq, hresp, hstore, hstream, hlast, hprev, hsnap, hread>>

\* GetHeaders()
CtxGetHeaders ==
    /\ CtxStep
    /\ hsnap' = [done |-> TRUE, snap |-> GetHeaders(hengine, hreq, hresp, hstore),
                 stored |-> hstore[REQUEST_HEADER_PARSED_STRING], prev |-> hprev]
    /\ hprev' = [has |-> TRUE, snap |-> GetHeaders(hengine, hreq, hresp, hstore),
                 recached |-> FALSE]
    /\ UNCHANGED <<hreq, hresp, hstore, hstream, hlast, hget, hread>>

\* The HeaderParser middleware: header := c.GetHeaders();
\* c.Set(REQUEST_HEADER_PARSED_STRING, header); next(c)
CtxHeaderParser ==
    /\ CtxStep
    /\ hstore' = [hstore EXCEPT ![REQUEST_HEADER_PARSED_STRING] =
                    [kind |-> "snapshot", str |-> "", by |-> "HeaderParser",
                     snap |-> GetHeaders(hengine, hreq, hresp, hstore)]]
    /\ hprev' = [has |-> TRUE, snap |-> GetHeaders(hengine, hreq, hresp, hstore),
                 recached |-> FALSE]
    /\ UNCHANGED <<hreq, hresp, hstream, hlast, hget, hsnap, hread>>

\* The values the application hands to Set: a string, or a *RequestHeader
\* of its own making.
StoreValues ==
    {[kind |-> "string", str |-> "a", snap |-> EmptySnapshot, by |-> "Set"],
     [kind |-> "snapshot", str |-> "", snap |-> [RequestID |-> "b", Origin |-> ""],
      by |-> "Set"]}

\* The keys of the store under which GetHeaders of a binding looks for a
\* snapshot before it parses: fiber's Locals(HEADER_PARSED_KEY); the other
\* two bindings look nowhere.
CachedKeys(e) == IF e = "fiber" THEN {HEADER_PARSED_KEY} ELSE {}

\* Set(key, value): any value under any key (fiber: Locals(key, value),
\* fasthttp: c.store[key] = value, echo: c.ctx.Set(key, value)).
CtxSet(key, value) ==
    /\ CtxStep
    /\ hstore' = [hstore EXCEPT ![key] = value]
    /\ hprev' = IF key \in CachedKeys(hengine) THEN [hprev EXCEPT !.recached = TRUE]
                ELSE hprev
    /\ UNCHANGED <<hreq, hresp, hstream, hlast, hget, hsnap, hread>>

\* GetBody(): fiber and fasthttp hand out the body they hold; echo reads
\* Request().Body to its end with io.ReadAll.
CtxGetBody ==
    /\ CtxStep
    /\ hread' = [done |-> TRUE,
                 val |-> IF hengine = "echo" THEN hstream ELSE hbody,
                 nth |-> hread.nth + 1]
    /\ hstream' = IF hengine = "echo" THEN <<>> ELSE hstream
    /\ UNCHANGED <<hreq, hresp, hstore, hlast, hprev, hget, hsnap>>

\* What is left of a stream after a reader took some of it from the front
Remainders(stream) == {SubSeq(stream, n + 1, Len(stream)) : n \in 0..Len(stream)}

\* Bind(v), BindJSON(v), BindForm(v): fiber and fasthttp decode the body
\* they hold and the query and form values, and leave the body as it is;
\* echo hands all three to c.ctx.Bind, whose binder decodes from
\* Request().Body when the content type is one it knows, taking what it
\* needs from the stream, and does not touch it otherwise.
CtxBind ==
    /\ CtxStep
    /\ hstream' \in (IF hengine = "echo" THEN Remainders(hstream) ELSE {hstream})
    /\ UNCHANGED <<hreq, hresp, hstore, hlast, hprev, hget, hsnap, hread>>

\* GetFile(fieldName): fiber and fasthttp parse the multipart form out of
\* the body they hold; echo's c.ctx.FormFile has net/http parse it out of
\* Request().Body, which reads the stream when the request is multipart.
CtxGetFile ==
    /\ CtxStep
    /\ hstream' \in (IF hengine = "echo" THEN Remainders(hstream) ELSE {hstream})
    /\ UNCHANGED <<hreq, hresp, hstore, hlast, hprev, hget, hsnap, hread>>

CtxNext ==
    \/ \E key \in HeaderKeys, value \in HeaderValues : CtxSetRequestHeader(key, value)
    \/ \E key \in HeaderKeys, value \in HeaderValues : CtxSetResponseHeader(key, value)
    \/ \E key \in HeaderKeys, value \in HeaderValues : CtxSetHeader(key, value)
    \/ \E key \in HeaderKeys : CtxGetHeader(key)
    \/ CtxGetHeaders
    \/ CtxHeaderParser
    \/ \E key \in StoreKeys, value \in StoreValues : CtxSet(key, value)
    \/ CtxGetBody
    \/ CtxBind
    \/ CtxGetFile

SpecCtx == CtxInit /\ [][CtxNext]_vars

\* ---------------------------------------------------- claims under SpecCtx
\* C17: a GetHeader(k) made after a setter call for k gives the value most
\* recently given to a setter for k.
C17_SetterVisible ==
    (hget.done /\ hget.want # "") => hget.val = hget.want

\* C18: a GetHeaders() made after HeaderParser has stored the snapshot in the
\* key-value store gives that stored snapshot.
C18_SnapshotOnce ==
    (hsnap.done /\ hsnap.stored.kind = "snapshot" /\ hsnap.stored.by = "HeaderParser")
        => hsnap.snap = hsnap.stored.snap

\* C19 as stated: a GetHeaders() made after another one, with no header
\* setter call between the two, gives a snapshot equal to the earlier one.
C19_GetHeadersIdempotent ==
    (hsnap.done /\ hsnap.prev.has) => hsnap.snap = hsnap.prev.snap

\* C19 amended: a GetHeaders() made after another one, with no header setter
\* call and no Set of a key under which the binding looks for a stored
\* snapshot between the two, gives a snapshot equal to the earlier one.
C19_GetHeadersIdempotentAmended ==
    (hsnap.done /\ hsnap.prev.has /\ ~hsnap.prev.recached) => hsnap.snap = hsnap.prev.snap

\* Two GetHeaders with nothing but a store write between them, on the
\* binding that reads response headers too, with a snapshot that shows a
\* header set on the response.
C19_Witness ==
    /\ hsnap.done /\ hsnap.prev.has /\ ~hsnap.prev.recached
    /\ hengine = "fasthttp"
    /\ hsnap.snap.RequestID = "b"
    /\ hreq[HEADER_REQUEST_ID] = ""
    /\ hstore[HEADER_REQUEST_ID].kind = "string"
    /\ hstore[HEADER_REQUEST_ID].str = "a"

\* C20: every GetBody() gives the full raw request body.
C20_BodyRepeatable ==
    hread.done => hread.val = hbody

\* --------------------------------------------------- claims under SpecCORS
Acted == cpc # "recv"
HeaderIs(key, value) == key \in DOMAIN chdr /\ chdr[key] = value

\* C8: for every request whose method is OPTIONS the CORS middleware
\* responds with status 204 and an empty body after setting Allow-Origin,
\* Allow-Methods and Allow-Headers, plus Expose-Headers when configured
\* non-empty and Max-Age when > 0, and the wrapped handler is never invoked;
\* for every other method the wrapped handler is invoked exactly once.
C8_Preflight ==
    Acted =>
       IF cin.method = "OPTIONS"
       THEN /\ cpc = "done" /\ ccalls = 0
            /\ cemit = << [fn |-> "String", code |-> 204, body |-> <<>>] >>
            /\ "Access-Control-Allow-Origin" \in DOMAIN chdr
            /\ HeaderIs("Access-Control-Allow-Methods", Join(Config(cin).allowMethods, ","))
            /\ HeaderIs("Access-Control-Allow-Headers", Join(Config(cin).allowHeaders, ","))
            /\ IF Config(cin).exposeHeaders # <<>>
               THEN HeaderIs("Access-Control-Expose-Headers",
                             Join(Config(cin).exposeHeaders, ","))
               ELSE "Access-Control-Expose-Headers" \notin DOMAIN chdr
            /\ "Access-Control-Max-Age" \in DOMAIN chdr <=> Config(cin).maxAge > 0
       ELSE /\ cemit = <<>>
            /\ ccalls = IF cpc = "done" THEN 1 ELSE 0

C8_Witness ==
    /\ cin.method = "OPTIONS" /\ cpc = "done" /\ ccalls = 0
    /\ cin.exposeHeaders # <<>> /\ cin.maxAge = 2000
    /\ HeaderIs("Access-Control-Max-Age", <<2>>)
    /\ HeaderIs("Access-Control-Allow-Methods", <<"GET", ",", "POST">>)
    /\ Len(cemit) = 1

\* C9: on every request CORS sets Access-Control-Allow-Origin to "*" if the
\* configured allow-list is empty, to the request's Origin value if the list
\* contains that exact origin or the wildcard "*", and otherwise to the first
\* configured origin.
C9_AllowOrigin ==
    Acted =>
       LET list == Config(cin).allowOrigins
       IN  HeaderIs("Access-Control-Allow-Origin",
              << IF list = <<>> THEN "*"
                 ELSE IF cin.origin \in Range(list) \/ "*" \in Range(list)
                      THEN cin.origin
                 ELSE list[1] >>)

C9_Witness ==
    /\ cpc = "done" /\ ~cin.nilConfig
    /\ cin.allowOrigins = <<"a.com", "b.com">> /\ cin.origin = "evil.com"
    /\ HeaderIs("Access-Control-Allow-Origin", <<"a.com">>)

\* --------------------------------------------------- claims under SpecRate
ForKey(k) == SelectSeq(rhist, LAMBDA e : e.key = k)

\* Every request is either admitted and reaches the wrapped handler, or
\* fails with the 429 structured error without the handler being invoked.
RateOutcomes ==
    \A i \in 1..Len(rhist) :
       IF ~rhist[i].returned THEN ~rhist[i].called
       ELSE IF rhist[i].ok
       THEN rhist[i].called /\ rhist[i].err = Nil
       ELSE ~rhist[i].called /\ rhist[i].err = NewError(429, "rate limit exceeded")

\* Of the requests of a key made at the moment of its first one, the first
\* b are admitted and the later ones are not.
RateBurst ==
    \A k \in Keys :
       LET q == ForKey(k)
       IN  \A i \in 1..Len(q) :
              q[i].at = q[1].at => (q[i].ok <=> i <= rcfg.burstSize)

\* A request of a key that comes 1/r seconds or more after the key's
\* previous request is admitted.
RateRefill ==
    rcfg.requestsPerSecond >= 1 =>
       \A k \in Keys :
          LET q == ForKey(k)
          IN  \A i \in 2..Len(q) :
                 (q[i].at - q[i - 1].at) * rcfg.requestsPerSecond >= TicksPerSec
                    => q[i].ok

\* C10 as stated: for a key with RequestsPerSecond = r and BurstSize = b
\* starting with a full bucket, b immediate requests are admitted and reach
\* the handler, the next immediate request fails with a 429 structured error
\* without invoking the handler, and after 1/r seconds without requests one
\* more request is admitted.
C10_TokenBucket == RateOutcomes /\ RateBurst /\ RateRefill

\* C10 amended: the refill is claimed for a burst size of at least 1; with a
\* burst size of 0 every request is refused.
C10_TokenBucketAmended ==
    /\ RateOutcomes
    /\ RateBurst
    /\ rcfg.burstSize >= 1 => RateRefill
    /\ rcfg.burstSize = 0 => \A i \in 1..Len(rhist) : ~rhist[i].ok

C10_Witness ==
    /\ rcfg = [requestsPerSecond |-> 1, burstSize |-> 1]
    /\ LET q == ForKey("k1")
       IN  /\ Len(q) = 3
           /\ q[1].ok /\ ~q[2].ok /\ q[3].ok
           /\ q[2].at = q[1].at
           /\ q[3].at = q[1].at + TicksPerSec
           /\ \A i \in 1..3 : q[i].returned
           /\ q[2].err.code = 429

\* --------------------------------------------------- claims under SpecExec
Finished == units[0].mode = "exited"
IsError(e) == e.kind \in {"structured", "opaque"}
Has(seq, x) == \E i \in 1..Len(seq) : seq[i] = x
Logged(ev) == \E i \in 1..Len(xlog) : xlog[i].ev = ev
Index(kind) == CHOOSE i \in 1..Len(xin.chain) : xin.chain[i] = kind
InChain(kind) == \E i \in 1..Len(xin.chain) : xin.chain[i] = kind

Delivered == IF xin.engine = "echo" THEN engineGot ELSE adapterGot

C3_AdapterConverts ==
    (Finished /\ IsError(adapterGot)) =>
        /\ \E i \in 1..Len(emits) :
              /\ emits[i].by = "Adapter" /\ emits[i].fn = "JSON"
              /\ emits[i].msg = adapterGot.msg
              /\ IF adapterGot.kind = "structured"
                 THEN emits[i].code = adapterGot.code
                 ELSE emits[i].code = StatusInternalServerError /\ emits[i].fields = {"error"}
        /\ engineGot = Nil

\* C3 restricted to the bindings that have handleError: holds.
C3_FiberFasthttpConvert == xin.engine \in Engines => C3_AdapterConverts

\* The moment the derived context is done by itself: its deadline, or the
\* cancellation of the context it was derived from if that comes first.
\* Timeout is entered at time 0: the layers before it take no time.
Cut ==
    IF xin.parentCancelAt # -1 /\ xin.parentCancelAt < ctx.deadline
    THEN xin.parentCancelAt ELSE ctx.deadline

\* C4 as stated: Timeout returns the 504 structured error "request timeout"
\* when the deadline expires before the wrapped chain's result is received,
\* at the deadline and no later; when the wrapped chain returns before the
\* deadline, Timeout returns exactly that chain's return value.
C4_TimeoutResult ==
    /\ At(0, "select", "Timeout") => now <= ctx.deadline
    /\ sel.resolved =>
          /\ (sel.sentAt = -1 \/ sel.sentAt > ctx.deadline) =>
                (sel.val = NewError(StatusGatewayTimeout, "request timeout")
                   /\ sel.at <= ctx.deadline)
          /\ (sel.sentAt # -1 /\ sel.sentAt < ctx.deadline) =>
                (sel.val = sel.sent /\ sel.at = sel.sentAt)

\* C4 amended: the same with the derived context's own end, which is the
\* deadline or the earlier cancellation of the parent context, in the place
\* of the deadline.
C4_TimeoutResultAmended ==
    /\ At(0, "select", "Timeout") => now <= Cut
    /\ sel.resolved =>
          /\ (sel.sentAt = -1 \/ sel.sentAt > Cut) =>
                (sel.val = NewError(StatusGatewayTimeout, "request timeout")
                   /\ sel.at = Cut)
          /\ (sel.sentAt # -1 /\ sel.sentAt < Cut) =>
                (sel.val = sel.sent /\ sel.at = sel.sentAt)

C4_Witness ==
    /\ xin.chain = <<"Timeout">> /\ xin.dur > xin.readTimeout
    /\ xin.parentCancelAt = -1
    /\ Finished /\ sel.resolved /\ sel.at = ctx.deadline /\ sel.at > 0
    /\ adapterGot = NewError(StatusGatewayTimeout, "request timeout")
    /\ units[1].mode = "work"

\* A handler that keeps the rule of one emission for itself: it does not
\* panic, and it either writes its response and returns nil or returns an
\* error without writing.
HandlerKeepsRule ==
    /\ xin.outcome.kind # "panic"
    /\ xin.writes => xin.outcome = Nil

\* C5: for each request at most one response emission is performed on its
\* Context over every interleaving; in particular after Timeout returned 504
\* and the adapter wrote the 504 response, the still running handler writes
\* no second response.
C5_AtMostOneEmission == HandlerKeepsRule => Len(emits) <= 1

\* C6: after Timeout has returned 504 the spawned execution is not killed:
\* it ends only by the handler returning, after the handler's whole
\* duration; its send on the result channel is never blocked, and once its
\* handler has returned the unit terminates.
C6_Safety ==
    /\ At(1, "ret", "Timeout") => SendEnabled
    /\ (sel.resolved /\ sel.sentAt = -1) =>
          (units[1].mode \in {"enter", "work", "ret", "panic"} \/ Crashed)
    /\ units[1].mode = "exited" => (sel.sentAt >= xin.dur /\ sel.sentAt # -1)

C6_SpawnedUnitTerminates ==
    /\ []C6_Safety
    /\ (At(1, "ret", "Timeout") ~> units[1].mode = "exited")
    /\ ((units[1].mode = "work" /\ xin.outcome.kind # "panic")
           ~> units[1].mode = "exited")

C6_Witness ==
    /\ sel.resolved /\ sel.val = TimeoutError /\ Finished
    /\ units[1].mode = "exited"
    /\ sel.sentAt > sel.at
    /\ done = <<sel.sent>>

\* The panic is raised in the unit that runs Recover: no Timeout between
\* Recover and the handler.  The default response: no custom ErrorHandler.
C7_Case ==
    /\ xin.outcome.kind = "panic"
    /\ InChain("Recover")
    /\ ~xin.errorHandler
    /\ InChain("Timeout") => Index("Timeout") < Index("Recover")

C28_Case == xin.outcome.kind = "panic" /\ ~xin.errorHandler

\* The spawned unit is past Recover.
PastRecover ==
    /\ Logged("raised")
    /\ ~Has(units[1].stack, Index("Recover"))

\* Recover inside Timeout: the panic is caught in the spawned unit and
\* answered with the 500 response, and the unit's result is nil.
RecoverInside ==
    xin.chain = <<"Timeout", "Recover">> =>
        /\ ~Crashed /\ ~Logged("crash")
        /\ PastRecover =>
              /\ Logged("recovered")
              /\ Has(emits, RecoverResponse)
              /\ units[1].val = Nil
              /\ sel.sentAt # -1 => sel.sent = Nil

\* Recover outside Timeout: the panic leaves the spawned unit unrecovered.
RecoverOutside ==
    (xin.chain = <<"Recover", "Timeout">> /\ Logged("raised")) =>
        /\ ~Logged("recovered")
        /\ \A i \in 1..Len(emits) : emits[i].by # "Recover"
        /\ units[1].mode \in {"panic", "crashed"}

\* C28 as stated: with chain [Timeout, Recover] the panic becomes a 500
\* response and what Timeout receives is nil; with chain [Recover, Timeout]
\* the panic escapes the spawned unit unrecovered.
C28_PanicUnderTimeout ==
    C28_Case =>
        /\ RecoverInside
        /\ (xin.chain = <<"Timeout", "Recover">> /\ sel.resolved) => sel.val = Nil
        /\ RecoverOutside

\* C28 amended: the same, Timeout receiving the nil result when the spawned
\* unit sent it before the derived context was done, and returning the 504
\* error when the context was done first.
C28_PanicUnderTimeoutAmended ==
    C28_Case =>
        /\ RecoverInside
        /\ (xin.chain = <<"Timeout", "Recover">> /\ sel.resolved) =>
              /\ (sel.sentAt # -1 /\ sel.sentAt < Cut) => sel.val = Nil
              /\ (sel.sentAt = -1 \/ sel.sentAt > Cut) => sel.val = TimeoutError
        /\ RecoverOutside

C28_Witness ==
    /\ C28_Case
    /\ xin.chain = <<"Timeout", "Recover">>
    /\ xin.dur < xin.readTimeout
    /\ Finished /\ sel.resolved /\ sel.val = Nil /\ adapterGot = Nil
    /\ Has(emits, RecoverResponse)

C28_WitnessOutside ==
    /\ C28_Case
    /\ xin.chain = <<"Recover", "Timeout">>
    /\ Crashed /\ Logged("crash") /\ emits = <<>>

\* ------------------------------------------------------- claims under Spec
IsPrefix(a, b) == Len(a) <= Len(b) /\ SubSeq(b, 1, Len(a)) = a

Pre(m) == [ev |-> "pre", m |-> m]
Post(m) == [ev |-> "post", m |-> m]

\* The onion order of a middleware list around the terminal handler.
Onion(list) ==
    [i \in 1..(2 * Len(list) + 1) |->
        IF i <= Len(list) THEN Pre(list[i])
        ELSE IF i = Len(list) + 1 THEN [ev |-> "H", m |-> H]
        ELSE Post(list[2 * Len(list) + 2 - i])]

\* Route r maps a method and a path to a Handler: it was registered with one
\* of the method functions (GET, POST, ...), not with Static, StaticFile or
\* WebSocket.
OfHandler(r) == routes[r].kind = "handler"

\* The middleware handed to Server.Use before route r was registered, in call order.
ServerUsedBefore(r) == [i \in 1..routes[r].seen[0] |-> Mw(0, i)]

\* What the request's log shows of those middleware and of the terminal handler.
ServerPart(r) ==
    SelectSeq(req.log, LAMBDA e : e.m = H \/ (e.m.t = 0 /\ e.m.k <= routes[r].seen[0]))

\* C1: a request to a route runs the pre-logic of the middleware added with
\* Server.Use before the route was registered in registration order, then the
\* terminal handler exactly once, then their post-logic in reverse order.
C1_OnionOrder ==
    (req.state # "idle" /\ OfHandler(req.route)) =>
        /\ IsPrefix(ServerPart(req.route), Onion(ServerUsedBefore(req.route)))
        /\ req.state = "done" =>
               ServerPart(req.route) = Onion(ServerUsedBefore(req.route))

C1_Witness ==
    /\ req.state = "done" /\ OfHandler(req.route)
    /\ routes[req.route].seen[0] >= 2
    /\ Len(req.log) >= 5

\* C2: for a route registered on a child group of a group, every middleware
\* added with Use to the parent group before the registration runs for the
\* route, before the middleware added to the child group.
C2_ChildInheritsParent ==
    (req.state = "done" /\ OfHandler(req.route) /\ routes[req.route].via # 0
        /\ grp[routes[req.route].via].parent # 0) =>
        LET g == routes[req.route].via
            p == grp[g].parent
            seen == routes[req.route].seen
        IN \A k \in 1..seen[p] :
              /\ \E a \in 1..Len(req.log) : req.log[a] = Pre(Mw(p, k))
              /\ \A j \in 1..seen[g], a, b \in 1..Len(req.log) :
                    (req.log[a] = Pre(Mw(p, k)) /\ req.log[b] = Pre(Mw(g, j))) => a < b

Last(q) == q[Len(q)]

\* The prefixes handed to the Group calls that led to router g, outermost
\* first; the server itself is reached through none.
RECURSIVE ReachedThrough(_)
ReachedThrough(g) ==
    IF g = 0 THEN <<>>
    ELSE ReachedThrough(grp[g].parent) \o <<Last(grp[g].prefix)>>

\* C21: a route registered with path p on a group reached through the nested
\* prefixes q1 ... qn is registered under q1 + ... + qn + p, and a route
\* registered on the server under p itself.
C21_PrefixConcat ==
    \A r \in 1..Len(routes) : OfHandler(r) =>
       /\ routes[r].path = ReachedThrough(routes[r].via) \o <<Last(routes[r].path)>>
       /\ routes[r].method \in Methods

C21_Witness ==
    \E r \in 1..Len(routes) :
       /\ OfHandler(r) /\ routes[r].via # 0
       /\ grp[routes[r].via].parent # 0
       /\ routes[r].method = "GET"
       /\ routes[r].path = <<"/api", "/v1", "/users">>

\* Router g is router t or a group made, directly or not, from t.
RECURSIVE Within(_, _)
Within(g, t) ==
    IF g = t THEN TRUE
    ELSE IF g = 0 THEN FALSE
    ELSE Within(grp[g].parent, t)

\* C23: a middleware added with Use on a group runs only in requests to
\* routes registered through that group or one of its subgroups.
C23_GroupScoped ==
    req.state # "idle" =>
        \A a \in 1..Len(req.log) :
           req.log[a].m.t > 0 => Within(routes[req.route].via, req.log[a].m.t)

\* Middleware k of router t was handed to Use before route r was registered.
UsedBefore(r, t, k) == k <= routes[r].seen[t]

\* C29: a request runs a middleware only if it was added with Use before the
\* request's route was registered, and runs every middleware added before
\* that to the server or to the group the route was registered on.
C29_FixedAtRegistration ==
    /\ (req.state # "idle" /\ OfHandler(req.route)) =>
          \A a \in 1..Len(req.log) :
             req.log[a].m.t >= 0 => UsedBefore(req.route, req.log[a].m.t, req.log[a].m.k)
    /\ (req.state = "done" /\ OfHandler(req.route)) =>
          \A t \in {0, routes[req.route].via} :
             \A k \in 1..routes[req.route].seen[t] :
                \E a \in 1..Len(req.log) : req.log[a] = Pre(Mw(t, k))

\* C29 for the bindings that compose the handler themselves: holds.
C29_FiberFasthttp == engine \in Engines => C29_FixedAtRegistration

C29_WitnessFiberFasthttp ==
    /\ engine = "fasthttp"
    /\ req.state = "done" /\ OfHandler(req.route)
    /\ routes[req.route].via # 0
    /\ routes[req.route].seen[routes[req.route].via] = 1
    /\ useCnt[0] = 1 /\ routes[req.route].seen[0] = 0
    /\ Len(req.log) = 3

\* ====================================================================
\* A request through the Security and RequestID middleware (SpecHeaders)
\* ====================================================================
SecurityConfigs ==
    [FrameDeny : BOOLEAN, ContentTypeNosniff : BOOLEAN,
     BrowserXssFilter : BOOLEAN, ContentSecurityPolicy : {"", "default-src 'self'"}]
WireChains == {<<"Security">>, <<"RequestID">>,
               <<"Security", "RequestID">>, <<"RequestID", "Security">>}
GeneratedIDs == {"g1", "g2"}

\* c.Response().Header().Set(key, value): echo's Response() is the engine's
\* own writer, so the Set lands in the engine's response headers; fiber's and
\* fasthttp's Header() build a new http.Header from the engine's headers on
\* each call, and the Set changes that copy only.
ResponseHeaderSet(e, native, key, value) ==
    IF e = "echo" THEN [native EXCEPT ![key] = value] ELSE native

\* The four conditional Sets of Security, in the order of the code.
SecurityHeaders(e, cfg, native) ==
    LET h1 == IF cfg.FrameDeny
              THEN ResponseHeaderSet(e, native, "X-Frame-Options", "DENY") ELSE native
        h2 == IF cfg.ContentTypeNosniff
              THEN ResponseHeaderSet(e, h1, "X-Content-Type-Options", "nosniff") ELSE h1
        h3 == IF cfg.BrowserXssFilter
              THEN ResponseHeaderSet(e, h2, "X-XSS-Protection", "1; mode=block") ELSE h2
    IN  IF cfg.ContentSecurityPolicy # ""
        THEN ResponseHeaderSet(e, h3, "Content-Security-Policy", cfg.ContentSecurityPolicy)
        ELSE h3

\* mutant of NeedsRequestID: an ID is generated for every request
NeedsRequestIDAlways(rid) == TRUE

\* if rid == ""
NeedsRequestID(rid) == rid = ""

HeadersInit ==
    /\ RouteIdle /\ ExecIdle /\ CorsIdle /\ RateIdle
    /\ LimIdle /\ AuthIdle /\ CacheIdle /\ CtxIdle /\ UpIdle /\ CliIdle
    /\ wengine \in AllEngines
    /\ wcfg \in SecurityConfigs
    /\ wchain \in WireChains
    /\ wpc = 1
    /\ wreq \in {[NoWire EXCEPT ![HEADER_REQUEST_ID] = v] : v \in {"", "a"}}
    \* an earlier layer may have put an X-Request-ID on the response already
    /\ wresp \in {[NoWire EXCEPT ![HEADER_REQUEST_ID] = v] : v \in {"", "b"}}
    /\ wdone = FALSE
    /\ win = wreq /\ wgen = "" /\ wseen = ""

\* The closure of Security(config): the Sets, then next(c).
Security ==
    /\ wpc \in 1..Len(wchain) /\ wchain[wpc] = "Security"
    /\ wresp' = SecurityHeaders(wengine, wcfg, wresp)
    /\ wpc' = wpc + 1
    /\ UNCHANGED <<wengine, wcfg, wchain, wreq, wdone, win, wgen, wseen>>
    /\ UNCHANGED notWire

\* The closure of RequestID(): GetHeader, SetHeader of a generated ID if the
\* header is empty, then next(c).
RequestID ==
    /\ wpc \in 1..Len(wchain) /\ wchain[wpc] = "RequestID"
    /\ LET rid == GetHeader(wengine, wreq, wresp, HEADER_REQUEST_ID)
       IN  IF NeedsRequestID(rid)
           THEN \E g \in GeneratedIDs :
                    /\ wreq' = [wreq EXCEPT ![HEADER_REQUEST_ID] = g]
                    /\ wresp' = [wresp EXCEPT ![HEADER_REQUEST_ID] = g]
                    /\ wgen' = g
           ELSE UNCHANGED <<wreq, wresp, wgen>>
    /\ wpc' = wpc + 1
    /\ UNCHANGED <<wengine, wcfg, wchain, wdone, win, wseen>>
    /\ UNCHANGED notWire

\* The wrapped handler: it reads the request ID and answers; the engine then
\* sends the response with the headers it holds.
WireHandler ==
    /\ wpc = Len(wchain) + 1 /\ ~wdone
    /\ wseen' = GetHeader(wengine, wreq, wresp, HEADER_REQUEST_ID)
    /\ wdone' = TRUE
    /\ UNCHANGED <<wengine, wcfg, wchain, wpc, wreq, wresp, win, wgen>>
    /\ UNCHANGED notWire

HeadersNext == Security \/ RequestID \/ WireHandler

SpecHeaders == HeadersInit /\ [][HeadersNext]_vars

Through(kind) == \E i \in 1..Len(wchain) : wchain[i] = kind

\* ------------------------------------------------ claims under SpecHeaders
\* C24: the final response of a request that passed through Security(config)
\* carries X-Frame-Options: DENY when FrameDeny is set, X-Content-Type-Options:
\* nosniff when ContentTypeNosniff is set, X-XSS-Protection: 1; mode=block when
\* BrowserXssFilter is set and the configured Content-Security-Policy, on
\* every engine binding.
C24_SecurityHeaders ==
    (wdone /\ Through("Security")) =>
        /\ wcfg.FrameDeny => wresp["X-Frame-Options"] = "DENY"
        /\ wcfg.ContentTypeNosniff => wresp["X-Content-Type-Options"] = "nosniff"
        /\ wcfg.BrowserXssFilter => wresp["X-XSS-Protection"] = "1; mode=block"
        /\ wcfg.ContentSecurityPolicy # ""
              => wresp["Content-Security-Policy"] = wcfg.ContentSecurityPolicy

\* The same statement for the echo binding alone, where it holds.
C24_EchoOnly ==
    wengine = "echo" => C24_SecurityHeaders

\* C25: a request that reaches the handler wrapped by RequestID has a
\* non-empty X-Request-ID readable through GetHeader; an X-Request-ID present
\* on the incoming request is still the request's X-Request-ID; and an ID is
\* generated only when GetHeader found none, and is then the X-Request-ID of
\* both the request and the response headers.
C25_RequestID ==
    (wdone /\ Through("RequestID")) =>
        /\ wseen # ""
        /\ win[HEADER_REQUEST_ID] # "" =>
              (wreq[HEADER_REQUEST_ID] = win[HEADER_REQUEST_ID] /\ wgen = "")
        /\ wgen # "" =>
              /\ win[HEADER_REQUEST_ID] = ""
              /\ wreq[HEADER_REQUEST_ID] = wgen
              /\ wresp[HEADER_REQUEST_ID] = wgen
              /\ wseen = wgen
        /\ (win[HEADER_REQUEST_ID] = "" /\ wgen = "") =>
              (wengine = "fasthttp" /\ wseen = wresp[HEADER_REQUEST_ID])

C25_Witness ==
    /\ wdone /\ Through("RequestID")
    /\ win[HEADER_REQUEST_ID] = "" /\ wgen = "g2" /\ wseen = "g2"

C25_WitnessKept ==
    /\ wdone /\ Through("RequestID")
    /\ win[HEADER_REQUEST_ID] = "a" /\ wseen = "a" /\ wgen = ""

\* ====================================================================
\* One upload through FileHandler.HandleUpload (SpecUpload)
\* ====================================================================
\* The largest upload of the model, in bytes.
MaxUpload == 2
\* Content types as <<type, subtype>>.
ContentTypes == {<<"image", "png">>, <<"application", "pdf">>, <<"text", "html">>}
\* NewFileHandler's default list and the README's list of exact types.
AllowedLists == {<< <<"image", "*">>, <<"application", "pdf">> >>,
                 << <<"image", "png">> >>}
\* c.SaveFile: os.Create fails, io.Copy fails after the file was created,
\* or the file is written.
SaveOutcomes == {"none", "create", "copy"}

Uploads ==
    [hasFile : BOOLEAN, size : 0..MaxUpload, ctype : ContentTypes, saveErr : SaveOutcomes,
     MaxFileSize : 0..(MaxUpload - 1), AllowedTypes : AllowedLists]

UploadInit ==
    /\ RouteIdle /\ ExecIdle /\ CorsIdle /\ RateIdle
    /\ LimIdle /\ AuthIdle /\ CacheIdle /\ CtxIdle /\ WireIdle /\ CliIdle
    /\ uin \in Uploads
    /\ udone = FALSE /\ uresp = NoAnswer /\ udir = {}

\* if file.Size > h.MaxFileSize
TooLarge(size, max) == size > max

\* c.SaveFile(file, dst): what is in the directory afterwards
SaveFile(dir, file, outcome) ==
    IF outcome = "create" THEN dir
    ELSE IF outcome = "copy"
         THEN dir \cup {[size |-> 0, ctype |-> file.ctype, whole |-> FALSE]}
    ELSE dir \cup {[size |-> file.size, ctype |-> file.ctype, whole |-> TRUE]}

\* The handler HandleUpload() returns.
HandleUpload ==
    /\ ~udone
    /\ udone' = TRUE
    /\ IF ~uin.hasFile
       THEN /\ uresp' = [code |-> StatusBadRequest, error |-> "file required"]
            /\ udir' = udir
       ELSE IF TooLarge(uin.size, uin.MaxFileSize)
       THEN /\ uresp' = [code |-> StatusBadRequest, error |-> "file too large"]
            /\ udir' = udir
       ELSE /\ udir' = SaveFile(udir, uin, uin.saveErr)
            /\ uresp' = IF uin.saveErr # "none"
                        THEN [code |-> StatusInternalServerError,
                              error |-> "failed to save file"]
                        ELSE [code |-> StatusOK, error |-> ""]
    /\ UNCHANGED uin
    /\ UNCHANGED notUp

UploadNext == HandleUpload

SpecUpload == UploadInit /\ [][UploadNext]_vars

\* The content type matches an entry of the list: the same type, and the same
\* subtype or the entry's wildcard.
TypeAllowed(ctype, allowed) ==
    \E i \in 1..Len(allowed) :
        allowed[i][1] = ctype[1] /\ allowed[i][2] \in {"*", ctype[2]}

Acceptable == uin.size <= uin.MaxFileSize /\ TypeAllowed(uin.ctype, uin.AllowedTypes)

\* ------------------------------------------------- claims under SpecUpload
\* C26: an uploaded file is saved only if its size is at most MaxFileSize and
\* its content type matches one of AllowedTypes; any other upload is answered
\* with an error status and nothing is written to UploadDir.
C26_UploadValidated ==
    (udone /\ uin.hasFile) =>
        /\ udir # {} => Acceptable
        /\ ~Acceptable => (uresp.code >= StatusBadRequest /\ udir = {})

\* The size half of C26 alone, which the handler does enforce.
C26_SizeEnforced ==
    (udone /\ uin.hasFile /\ uin.size > uin.MaxFileSize) =>
        (uresp.code = StatusBadRequest /\ udir = {})

C26_WitnessSize ==
    udone /\ uin.hasFile /\ uin.size > uin.MaxFileSize /\ uresp.error = "file too large"

\* ====================================================================
\* One call of Client.Request (SpecClient)
\* ====================================================================
\* The largest MaxRetries of the model.
MaxMaxRetries == 2
\* What c.HTTPClient.Do gives for one attempt: a response with a status, or
\* a network error.
ServerOutcomes == {"200", "500", "neterr"}
RetryPolicies == {"nil", "DefaultRetryPolicy"}

StatusOf(outcome) == IF outcome = "200" THEN StatusOK ELSE StatusInternalServerError

\* DefaultRetryPolicy(resp, err)
DefaultRetryPolicy(resp, err) ==
    IF err # "" THEN TRUE
    ELSE IF ~resp.isNil /\ resp.status >= StatusInternalServerError THEN TRUE
    ELSE FALSE

\* reqConfig.RetryPolicy != nil && reqConfig.RetryPolicy(resp, err)
PolicyRetries(policy, resp, err) ==
    policy # "nil" /\ DefaultRetryPolicy(resp, err)

\* the loop condition attempt < reqConfig.MaxRetries
LoopRuns(attempt, max) == attempt < max

ClientInit ==
    /\ RouteIdle /\ ExecIdle /\ CorsIdle /\ RateIdle
    /\ LimIdle /\ AuthIdle /\ CacheIdle /\ CtxIdle /\ WireIdle /\ UpIdle
    /\ kin \in [MaxRetries : 0..MaxMaxRetries, RetryPolicy : RetryPolicies,
                server : [1..MaxMaxRetries -> ServerOutcomes]]
    /\ kpc = "loop" /\ kattempt = 0
    /\ kresp = NilResponse /\ klastErr = "" /\ kret = NoReturn /\ klog = <<>>

\* The head of an iteration: the loop condition holds, and every iteration
\* but the first sleeps for RetryDelay.
ClientIterate ==
    /\ kpc = "loop" /\ LoopRuns(kattempt, kin.MaxRetries)
    /\ klog' = IF kattempt > 0 THEN Append(klog, "wait") ELSE klog
    /\ kpc' = "do"
    /\ UNCHANGED <<kin, kattempt, kresp, klastErr, kret>>
    /\ UNCHANGED notCli

\* resp, err = c.HTTPClient.Do(req) and the rest of the iteration.
ClientDo ==
    /\ kpc = "do"
    /\ klog' = Append(klog, "send")
    /\ LET outcome == kin.server[kattempt + 1]
           err == IF outcome = "neterr" THEN "neterr" ELSE ""
           resp == IF outcome = "neterr" THEN NilResponse
                   ELSE [isNil |-> FALSE, status |-> StatusOf(outcome), closed |-> FALSE]
       IN  /\ klastErr' = err
           /\ IF err = ""
              THEN IF PolicyRetries(kin.RetryPolicy, resp, "")
                   THEN \* resp.Body.Close(); continue
                        /\ kresp' = [resp EXCEPT !.closed = TRUE]
                        /\ kattempt' = kattempt + 1
                        /\ kpc' = "loop"
                        /\ kret' = kret
                   ELSE \* break
                        /\ kresp' = resp
                        /\ kpc' = "after"
                        /\ UNCHANGED <<kattempt, kret>>
              ELSE IF kattempt >= kin.MaxRetries
                      \/ ~PolicyRetries(kin.RetryPolicy, NilResponse, err)
                   THEN /\ kresp' = resp
                        /\ kret' = [resp |-> NilResponse, err |-> "request failed"]
                        /\ kpc' = "returned"
                        /\ kattempt' = kattempt
                   ELSE /\ kresp' = resp
                        /\ kattempt' = kattempt + 1
                        /\ kpc' = "loop"
                        /\ kret' = kret
    /\ UNCHANGED kin
    /\ UNCHANGED notCli

\* After the loop: an error if resp is nil, else resp with a nil error.
ClientReturn ==
    /\ \/ kpc = "after"
       \/ kpc = "loop" /\ ~LoopRuns(kattempt, kin.MaxRetries)
    /\ kret' = IF kresp.isNil
               THEN [resp |-> NilResponse, err |-> "all request attempts failed"]
               ELSE [resp |-> kresp, err |-> ""]
    /\ kpc' = "returned"
    /\ UNCHANGED <<kin, kattempt, kresp, klastErr, klog>>
    /\ UNCHANGED notCli

ClientNext == ClientIterate \/ ClientDo \/ ClientReturn

SpecClient == ClientInit /\ [][ClientNext]_vars

Sent == Cardinality({i \in 1..Len(klog) : klog[i] = "send"})
Returned == kpc = "returned" /\ kin.server # <<>>

\* what the first attempt alone would give back
FirstAttempt ==
    IF kin.server[1] = "neterr" THEN [resp |-> NilResponse, err |-> "request failed"]
    ELSE [resp |-> [isNil |-> FALSE, status |-> StatusOf(kin.server[1]), closed |-> FALSE],
          err |-> ""]

\* ------------------------------------------------- claims under SpecClient
\* C27: Request sends the request at least once whatever the retry settings;
\* with MaxRetries = 0 exactly one attempt is made and its response or error
\* is returned; with MaxRetries = n at most n attempts follow the first one,
\* each preceded by a wait of RetryDelay.
C27_AtLeastOnce ==
    Returned =>
        /\ Sent >= 1
        /\ kin.MaxRetries = 0 => (Sent = 1 /\ kret = FirstAttempt)
        /\ Sent <= 1 + kin.MaxRetries
        /\ \A i \in 2..Len(klog) : klog[i] = "send" => klog[i - 1] = "wait"

\* What the loop does give: one attempt at least when MaxRetries is positive,
\* never more than MaxRetries attempts, a wait before each but the first.
C27_WhenPositive ==
    (Returned /\ kin.MaxRetries >= 1) =>
        /\ Sent >= 1 /\ Sent <= kin.MaxRetries
        /\ \A i \in 2..Len(klog) : klog[i] = "send" => klog[i - 1] = "wait"

C27_WitnessPositive ==
    Returned /\ kin.MaxRetries = 2 /\ klog = <<"send", "wait", "send">>

\* C30: when Request returns a response together with a nil error, it has
\* not closed that response's body, also when the retry policy asked for a
\* retry on the response of the last permitted attempt.
C30_BodyOpen ==
    (Returned /\ kret.err = "" /\ ~kret.resp.isNil) => ~kret.resp.closed

====
